---- MODULE Spec2Model ----
(***************************************************************************)
(* Verification model of the inventory-analytics services:                 *)
(*   apps/ds-analytics  - usage estimation, confidence scoring, the batch  *)
(*                        drivers that write results back to products.     *)
(*                                                                         *)
(* Numbers.  Python floats are modelled as exact rationals                 *)
(* [k |-> "num", n, d] in lowest terms, with the two IEEE specials the     *)
(* code can produce ([k |-> "nan"], [k |-> "inf"]).  confidence_score is   *)
(* kept in integer units of 1/ConfScale so that the division by 1.5 of the *)
(* hybrid merge stays exact.                                               *)
(***************************************************************************)
EXTENDS Integers, Sequences, FiniteSets, TLC

(***************************************************************************)
(* Float values                                                            *)
(***************************************************************************)
Abs(x) == IF x < 0 THEN -x ELSE x

Min2(a, b) == IF a <= b THEN a ELSE b

Max2(a, b) == IF a >= b THEN a ELSE b

RECURSIVE Gcd(_, _)
Gcd(a, b) == IF b = 0 THEN a ELSE Gcd(b, a % b)

\* the rational n/d (d # 0) in lowest terms with a positive denominator
F(n, d) ==
    LET s == IF d < 0 THEN -1 ELSE 1
        g == Gcd(Abs(n), Abs(d))
    IN  [k |-> "num", n |-> (s * n) \div g, d |-> (s * d) \div g]

NaN == [k |-> "nan", n |-> 0, d |-> 1]

Inf == [k |-> "inf", n |-> 1, d |-> 1]

IsNum(x) == x.k = "num"

\* x + y, x * y, x / 2 on floats; NaN is absorbing, inf + finite = inf
FAdd(x, y) ==
    IF x.k = "nan" \/ y.k = "nan" THEN NaN
    ELSE IF x.k = "inf" \/ y.k = "inf" THEN Inf
    ELSE LET g == Gcd(x.d, y.d)
         IN  F(x.n * (y.d \div g) + y.n * (x.d \div g), x.d * (y.d \div g))

\* x * y on finite floats, cancelling common factors before multiplying
FMul(x, y) ==
    LET g1 == Max2(Gcd(Abs(x.n), y.d), 1)
        g2 == Max2(Gcd(Abs(y.n), x.d), 1)
    IN  F((x.n \div g1) * (y.n \div g2), (x.d \div g2) * (y.d \div g1))

\* x * n / d (d # 0); NaN and inf are kept (the code scales by positives)
FScale(x, n, d) ==
    IF x.k = "num" THEN FMul(x, F(n, d)) ELSE x

\* x < y: every comparison with NaN is False
FLess(x, y) ==
    IF x.k = "nan" \/ y.k = "nan" THEN FALSE
    ELSE IF x.k = "inf" THEN FALSE
    ELSE IF y.k = "inf" THEN TRUE
    ELSE x.n * y.d < y.n * x.d

FSign(x) == IF x.n > 0 THEN 1 ELSE IF x.n < 0 THEN -1 ELSE 0

\* int(x) of a finite float: truncation toward zero
FTrunc(x) == IF x.n >= 0 THEN x.n \div x.d ELSE -((-x.n) \div x.d)

RECURSIVE ISqrtBetween(_, _, _)
ISqrtBetween(x, lo, hi) ==
    IF lo >= hi THEN lo
    ELSE LET mid == (lo + hi + 1) \div 2
         IN  IF mid * mid <= x THEN ISqrtBetween(x, mid, hi)
             ELSE ISqrtBetween(x, lo, mid - 1)

\* floor of the square root of a natural number
ISqrt(x) == ISqrtBetween(x, 0, Min2(x, 46340))

(***************************************************************************)
(* pandas Series helpers (a Series is a sequence of finite floats)         *)
(***************************************************************************)
RECURSIVE SeqSum(_)
SeqSum(s) == IF s = << >> THEN F(0, 1) ELSE FAdd(Head(s), SeqSum(Tail(s)))

RECURSIVE InsertSorted(_, _)
InsertSorted(x, s) ==
    IF s = << >> THEN << x >>
    ELSE IF FLess(Head(s), x) THEN << Head(s) >> \o InsertSorted(x, Tail(s))
    ELSE << x >> \o s

RECURSIVE sort_values(_)
sort_values(s) == IF s = << >> THEN << >> ELSE InsertSorted(Head(s), sort_values(Tail(s)))

SeqMean(s) == FScale(SeqSum(s), 1, Len(s))

\* Series.var(): sample variance (ddof = 1); NaN for a single observation
SeqVar(s) ==
    IF Len(s) < 2 THEN NaN
    ELSE LET m  == SeqMean(s)
             sq == [i \in 1..Len(s) |->
                      LET dv == FAdd(s[i], FScale(m, -1, 1))
                      IN  FMul(dv, dv)]
         IN  FScale(SeqSum(sq), 1, Len(s) - 1)

\* Series.quantile(qn/qd) with linear interpolation, on finite values
Quantile(s, qn, qd) ==
    LET sorted == sort_values(s)
        m   == Len(s)
        lo  == ((m - 1) * qn) \div qd
        fr  == ((m - 1) * qn) % qd
        hi  == Min2(lo + 1, m - 1)
    IN  FScale(FAdd(FScale(sorted[lo + 1], qd - fr, 1),
                    FScale(sorted[hi + 1], fr, 1)), 1, qd)

(***************************************************************************)
(* utils/statistical.py                                                    *)
(***************************************************************************)
\* resolution at which a coefficient of variation is stored (1/CvScale,
\* rounded toward zero); the thresholds 0.2, 0.5, 1.0 lie on this grid
CvScale == 100

\* weights of np.ones(n) with the last three set to recent_weight = 1.5,
\* before normalisation (in halves: 2 = 1.0, 3 = 1.5)
generate_time_weights(n_periods) ==
    [i \in 1..n_periods |->
        IF n_periods >= 3 /\ i > n_periods - 3 THEN 3 ELSE 2]

\* np.average(values, weights = generate_time_weights(len(values)))
weighted_average(values) ==
    LET w == generate_time_weights(Len(values))
    IN  FScale(SeqSum([i \in 1..Len(values) |-> FScale(values[i], w[i], 1)]),
               1, SeqSum([i \in 1..Len(values) |-> F(w[i], 1)]).n)

calculate_coefficient_of_variation(values) ==
    LET mean_val == SeqMean(values)
        var_val  == SeqVar(values)
    IN  IF mean_val.n = 0 THEN Inf
        ELSE IF var_val.k = "nan" THEN NaN
        ELSE LET inv_mean == F(mean_val.d, mean_val.n)
                 sq == FMul(FMul(var_val, inv_mean), inv_mean)
                 c  == ISqrt((CvScale * CvScale * sq.n) \div sq.d)
             IN  F(FSign(mean_val) * c, CvScale)

\* outlier_count of detect_outliers_iqr: values outside the Tukey fences
detect_outliers_iqr(values) ==
    LET Q1  == Quantile(values, 1, 4)
        Q3  == Quantile(values, 3, 4)
        IQR == FAdd(Q3, FScale(Q1, -1, 1))
        lower_bound == FAdd(Q1, FScale(IQR, -3, 2))
        upper_bound == FAdd(Q3, FScale(IQR, 3, 2))
    IN  Cardinality({i \in 1..Len(values) :
            FLess(values[i], lower_bound) \/ FLess(upper_bound, values[i])})

\* 'trend' of calculate_usage_velocity_trend: least-squares slope of the
\* history against 0..n-1, compared with 5% of the mean
calculate_usage_velocity_trend(history) ==
    LET n   == Len(history)
        sx  == F((n * (n - 1)) \div 2, 1)
        sy  == SeqSum(history)
        sxy == SeqSum([i \in 1..n |-> FScale(history[i], i - 1, 1)])
        sxx == SeqSum([i \in 1..n |-> F((i - 1) * (i - 1), 1)])
        num == FAdd(FScale(sxy, n, 1), FScale(sy, -(sx.n), 1))
        den == n * sxx.n - sx.n * sx.n
        slope == FScale(num, 1, den)
        mean_usage == FScale(sy, 1, n)
        abs_slope == F(Abs(slope.n), slope.d)
    IN  IF n < 3 THEN "unknown"
        ELSE IF FLess(abs_slope, FScale(mean_usage, 1, 20)) THEN "stable"
        ELSE IF slope.n > 0 THEN "increasing"
        ELSE "decreasing"

\* 'seasonal' of detect_seasonality.  Fewer than 12 points: not seasonal.
\* Otherwise the answer is the outcome of the FFT peak classification of
\* the series, which is a fixed function of the series: spectrum stands for
\* its value on the series at hand.
detect_seasonality(monthly_series, spectrum) ==
    IF Len(monthly_series) < 12 THEN FALSE ELSE spectrum

(***************************************************************************)
(* utils/confidence.py                                                     *)
(***************************************************************************)
\* confidence_score 1.0 in model units
ConfScale == 3000

\* a score given in hundredths, in model units
Conf(hundredths) == hundredths * (ConfScale \div 100)

\* WEIGHTS and the sub-scores are in hundredths
WEIGHTS ==
    [data_points |-> 30, consistency |-> 25, recency |-> 20,
     method_reliability |-> 15, cross_validation |-> 10]

\* every method rated like the estimate from the notification point
METHOD_SCORES_unranked(calculation_method) == 30

METHOD_SCORES(calculation_method) ==
    CASE calculation_method = "snapshot_delta"    -> 90
      [] calculation_method = "order_fulfillment" -> 85
      [] calculation_method = "hybrid"            -> 95
      [] calculation_method = "stock_movement"    -> 80
      [] calculation_method = "estimated"         -> 30
      [] OTHER -> 50

_score_data_points(data_points) ==
    IF data_points >= 12 THEN 100
    ELSE IF data_points >= 6 THEN 75
    ELSE IF data_points >= 3 THEN 50
    ELSE 25

_score_consistency(coefficient_of_variation) ==
    IF FLess(coefficient_of_variation, F(1, 5)) THEN 100
    ELSE IF FLess(coefficient_of_variation, F(1, 2)) THEN 70
    ELSE IF FLess(coefficient_of_variation, F(1, 1)) THEN 40
    ELSE 20

_score_recency(days_since_last_data) ==
    IF days_since_last_data <= 30 THEN 100
    ELSE IF days_since_last_data <= 60 THEN 80
    ELSE IF days_since_last_data <= 90 THEN 60
    ELSE 40

\* round(confidence, 2) of a weighted sum given in 1/10000.  The binary
\* float sum rounds like the decimal one (ties upward) for every sum the
\* sub-scores can produce except 0.615, whose float lies below the tie.
round2(ten_thousandths) ==
    IF ten_thousandths = 6150 THEN 61 ELSE (ten_thousandths + 50) \div 100

calculate_confidence(data_points, coefficient_of_variation, days_since_last_data, calculation_method) ==
    LET data_score        == _score_data_points(data_points)
        consistency_score == _score_consistency(coefficient_of_variation)
        recency_score     == _score_recency(days_since_last_data)
        method_score      == METHOD_SCORES(calculation_method)
        cv_score          == 50
        confidence ==
            WEIGHTS.data_points * data_score +
            WEIGHTS.consistency * consistency_score +
            WEIGHTS.recency * recency_score +
            WEIGHTS.method_reliability * method_score +
            WEIGHTS.cross_validation * cv_score
    IN  Conf(round2(confidence))

classify_confidence_level(score) ==
    IF score >= Conf(75) THEN "high"
    ELSE IF score >= Conf(50) THEN "medium"
    ELSE "low"

\* determine_calculation_tier with exclusive thresholds
determine_calculation_tier_exclusive(data_months) ==
    IF data_months > 12 THEN "12_month"
    ELSE IF data_months > 6 THEN "6_month"
    ELSE IF data_months > 3 THEN "3_month"
    ELSE "weekly"

determine_calculation_tier(data_months) ==
    IF data_months >= 12 THEN "12_month"
    ELSE IF data_months >= 6 THEN "6_month"
    ELSE IF data_months >= 3 THEN "3_month"
    ELSE "weekly"

(***************************************************************************)
(* services/usage_calculator.py                                            *)
(***************************************************************************)
\* Python's None where a UsageResult is expected
None == [none |-> TRUE]

\* an Optional column or row: << >> is NULL / no row, << v >> holds v
Null == << >>

Some(v) == << v >>

\* truthiness of an Optional integer: neither None nor 0
Truthy(o) == o # Null /\ o[1] # 0

UsageResult(product_id, units, packs, method, score, level, months, tier, outliers, var, cvv, days) ==
    [product_id |-> product_id,
     monthly_usage_units |-> units,
     monthly_usage_packs |-> packs,
     calculation_method |-> method,
     confidence_score |-> score,
     confidence_level |-> level,
     data_months |-> months,
     calculation_tier |-> tier,
     seasonality_detected |-> FALSE,
     trend_direction |-> "unknown",
     outliers_detected |-> outliers,
     variance |-> var,
     cv |-> cvv,
     days_since_last_data |-> days]

\* rows: the monthly aggregates of the completed transactions of the
\* trailing 12 months, ascending: [month, total_units, total_packs],
\* month being the day number of the first day of the month
_calculate_from_orders(product_id, rows, now) ==
    IF rows = << >> THEN None
    ELSE
    LET data_months == Len(rows)
        total_units == [i \in 1..Len(rows) |-> F(rows[i].total_units, 1)]
        total_packs == [i \in 1..Len(rows) |-> F(rows[i].total_packs, 1)]
        weighted_avg_units == weighted_average(total_units)
        weighted_avg_packs == weighted_average(total_packs)
        variance == SeqVar(total_units)
        cv == calculate_coefficient_of_variation(total_units)
        days_since_last == now - rows[Len(rows)].month
        outliers == detect_outliers_iqr(total_units)
        confidence_score ==
            calculate_confidence(data_months, cv, days_since_last,
                                 "order_fulfillment")
    IN  UsageResult(product_id, weighted_avg_units, weighted_avg_packs,
                    "order_fulfillment", confidence_score,
                    classify_confidence_level(confidence_score),
                    data_months, determine_calculation_tier(data_months),
                    outliers, variance, cv, days_since_last)

\* daily usage rate of each consumption event (negative delta between two
\* consecutive snapshots): |delta| / days_between, inf when both snapshots
\* were recorded less than a day apart
consumption_rates(rows) ==
    LET idx == {i \in 2..Len(rows) :
                    rows[i].total_units - rows[i - 1].total_units < 0}
        rate(i) ==
            LET consumption  == rows[i - 1].total_units - rows[i].total_units
                days_between == rows[i].recorded_at - rows[i - 1].recorded_at
            IN  IF days_between = 0 THEN Inf ELSE F(consumption, days_between)
        RECURSIVE collect(_)
        collect(i) ==
            IF i > Len(rows) THEN << >>
            ELSE (IF i \in idx THEN << rate(i) >> ELSE << >>) \o collect(i + 1)
    IN  collect(2)

\* daily_usage.quantile(0.95).  When one of the two interpolated order
\* statistics is inf, the library's result is inf or NaN depending on the
\* interpolation arithmetic (inf - inf, inf * 0): lerp is the outcome.
quantile95(rates, lerp) ==
    LET sorted == sort_values(rates)
        m  == Len(rates)
        lo == ((m - 1) * 19) \div 20
        hi == Min2(lo + 1, m - 1)
    IN  IF sorted[lo + 1].k = "inf" \/ sorted[hi + 1].k = "inf"
        THEN (IF lerp = "nan" THEN NaN ELSE Inf)
        ELSE Quantile(rates, 19, 20)

\* the rates kept by the two filters daily_usage > 0 and
\* daily_usage < daily_usage.quantile(0.95)
trimmed_rates(rates, lerp) ==
    LET positive == SelectSeq(rates, LAMBDA x : FLess(F(0, 1), x))
    IN  IF positive = << >> THEN << >>
        ELSE SelectSeq(positive,
                       LAMBDA x : FLess(x, quantile95(positive, lerp)))

\* rows: the stock_history rows of the trailing 12 months, ascending:
\* [recorded_at, total_units], recorded_at being a day number
_calculate_from_snapshots(product_id, rows, pack_size, now, lerp) ==
    IF Len(rows) < 2 THEN None
    ELSE IF consumption_rates(rows) = << >> THEN None
    ELSE IF trimmed_rates(consumption_rates(rows), lerp) = << >> THEN None
    ELSE
    LET daily_usage == trimmed_rates(consumption_rates(rows), lerp)
        avg_daily_usage == SeqMean(daily_usage)
        monthly_usage_units == FScale(avg_daily_usage, 761, 25)
        monthly_usage_packs == FScale(monthly_usage_units, 1, pack_size)
        monthly_equiv ==
            [i \in 1..Len(daily_usage) |-> FScale(daily_usage[i], 761, 25)]
        variance == SeqVar(monthly_equiv)
        cv == calculate_coefficient_of_variation(monthly_equiv)
        days_since_last == now - rows[Len(rows)].recorded_at
        outliers == detect_outliers_iqr(monthly_equiv)
        date_range == rows[Len(rows)].recorded_at - rows[1].recorded_at
        data_months == FTrunc(F(date_range * 25, 761))
        confidence_score ==
            calculate_confidence(Len(daily_usage), cv, days_since_last,
                                 "snapshot_delta")
    IN  UsageResult(product_id, monthly_usage_units, monthly_usage_packs,
                    "snapshot_delta", confidence_score,
                    classify_confidence_level(confidence_score),
                    data_months, determine_calculation_tier(data_months),
                    outliers, variance, cv, days_since_last)

\* combined_confidence without the cap at 1.0
combined_confidence_uncapped(a, b) == ((a + b) * 2) \div 3

\* combined_confidence as the plain mean of the two scores
combined_confidence_mean(a, b) == (a + b) \div 2

\* min((a + b) / 1.5, 1.0) on two confidence scores.  For the scores the
\* two estimators produce the float result equals the exact one, except
\* (0.78 + 0.39) / 1.5 = 0.7799999999999999, one unit below 0.78 here.
combined_confidence(a, b) ==
    IF {a, b} = {Conf(78), Conf(39)} THEN Conf(78) - 1
    ELSE Min2(((a + b) * 2) \div 3, ConfScale)

\* UsageResult objects live in a heap (a sequence of records); a variable
\* holding a result holds its index, NoneRef when it holds None.  Returning
\* an argument returns the same object; UsageResult(...) allocates.
NoneRef == 0

Alloc(heap, value) ==
    IF value = None THEN [heap |-> heap, ref |-> NoneRef]
    ELSE [heap |-> Append(heap, value), ref |-> Len(heap) + 1]

\* the new estimate built by _combine_results from two estimates
hybrid_estimate(order_result, snapshot_result) ==
    LET total_confidence ==
            order_result.confidence_score + snapshot_result.confidence_score
        \* order_weight = c_order / total, snapshot_weight = c_snapshot / total
        combined_usage_units ==
            FScale(FAdd(FScale(order_result.monthly_usage_units,
                               order_result.confidence_score, 1),
                        FScale(snapshot_result.monthly_usage_units,
                               snapshot_result.confidence_score, 1)),
                   1, total_confidence)
        combined_usage_packs ==
            FScale(FAdd(FScale(order_result.monthly_usage_packs,
                               order_result.confidence_score, 1),
                        FScale(snapshot_result.monthly_usage_packs,
                               snapshot_result.confidence_score, 1)),
                   1, total_confidence)
        confidence ==
            combined_confidence(order_result.confidence_score,
                                snapshot_result.confidence_score)
        months == Max2(order_result.data_months, snapshot_result.data_months)
    IN  UsageResult(order_result.product_id,
            combined_usage_units, combined_usage_packs, "hybrid",
            confidence, classify_confidence_level(confidence),
            months, determine_calculation_tier(months),
            order_result.outliers_detected + snapshot_result.outliers_detected,
            FScale(FAdd(order_result.variance, snapshot_result.variance), 1, 2),
            FScale(FAdd(order_result.cv, snapshot_result.cv), 1, 2),
            Min2(order_result.days_since_last_data,
                 snapshot_result.days_since_last_data))

\* _combine_results merging into the order estimate instead of building a
\* new object
_combine_results_in_place(heap, order_result, snapshot_result) ==
    IF order_result = NoneRef /\ snapshot_result = NoneRef
    THEN [heap |-> heap, ref |-> NoneRef]
    ELSE IF order_result = NoneRef
    THEN [heap |-> heap, ref |-> snapshot_result]
    ELSE IF snapshot_result = NoneRef
    THEN [heap |-> heap, ref |-> order_result]
    ELSE [heap |-> [heap EXCEPT ![order_result] =
                        hybrid_estimate(heap[order_result],
                                        heap[snapshot_result])],
          ref |-> order_result]

\* returns the heap after the call and the reference returned
_combine_results(heap, order_result, snapshot_result) ==
    IF order_result = NoneRef /\ snapshot_result = NoneRef
    THEN [heap |-> heap, ref |-> NoneRef]
    ELSE IF order_result = NoneRef
    THEN [heap |-> heap, ref |-> snapshot_result]
    ELSE IF snapshot_result = NoneRef
    THEN [heap |-> heap, ref |-> order_result]
    ELSE IF heap[order_result].confidence_score
              + heap[snapshot_result].confidence_score = 0
    THEN [heap |-> heap, ref |-> order_result]
    ELSE Alloc(heap, hybrid_estimate(heap[order_result],
                                     heap[snapshot_result]))

\* product: [pack_size, notification_point (Optional)];
\* config: Null or Some([reorder_lead_days, safety_stock_weeks])
_estimate_from_notification_point(product_id, product, config) ==
    IF ~Truthy(product.notification_point) THEN None
    ELSE
    LET lead_time_weeks ==
            F(IF config # Null THEN config[1].reorder_lead_days ELSE 14, 7)
        safety_weeks ==
            F(IF config # Null THEN config[1].safety_stock_weeks ELSE 2, 1)
        total_weeks == FAdd(lead_time_weeks, safety_weeks)
        notification_point == product.notification_point[1]
        estimated_weekly_usage_packs ==
            IF total_weeks.n > 0
            THEN F(notification_point * total_weeks.d, total_weeks.n)
            ELSE F(notification_point, 3)
        monthly_usage_packs == FScale(estimated_weekly_usage_packs, 433, 100)
        monthly_usage_units == FScale(monthly_usage_packs, product.pack_size, 1)
    IN  UsageResult(product_id, monthly_usage_units, monthly_usage_packs,
                    "estimated", Conf(30), "low", 0, "estimated",
                    0, F(0, 1), F(0, 1), 0)

\* the zero-usage result returned when no estimator has data
no_data_result(product_id) ==
    UsageResult(product_id, F(0, 1), F(0, 1), "no_data", 0, "low", 0,
                "no_data", 0, F(0, 1), F(0, 1), 0)

\* _enrich_with_patterns also resetting data_months to the number of
\* monthly rows it read
_enrich_with_patterns_and_months(heap, rows, result, spectrum) ==
    IF Len(rows) < 3 THEN heap
    ELSE LET monthly_usage ==
                 [i \in 1..Len(rows) |-> F(rows[i].total_units, 1)]
         IN  [heap EXCEPT
                ![result].trend_direction =
                    calculate_usage_velocity_trend(monthly_usage),
                ![result].seasonality_detected =
                    detect_seasonality(monthly_usage, spectrum),
                ![result].data_months = Len(rows)]

\* rows: the same monthly aggregates as _calculate_from_orders reads.
\* Assigns the two pattern fields of the object in place; returns the heap.
_enrich_with_patterns(heap, rows, result, spectrum) ==
    IF Len(rows) < 3 THEN heap
    ELSE LET monthly_usage ==
                 [i \in 1..Len(rows) |-> F(rows[i].total_units, 1)]
         IN  [heap EXCEPT
                ![result].trend_direction =
                    calculate_usage_velocity_trend(monthly_usage),
                ![result].seasonality_detected =
                    detect_seasonality(monthly_usage, spectrum)]

\* the sort without reverse = True: ascending confidence
RECURSIVE sort_by_confidence_ascending(_, _)
sort_by_confidence_ascending(heap, results) ==
    IF results = << >> THEN << >>
    ELSE LET rest == sort_by_confidence_ascending(heap, Tail(results))
             RECURSIVE insert(_, _)
             insert(r, sorted) ==
                 IF sorted = << >> THEN << r >>
                 ELSE IF heap[Head(sorted)].confidence_score
                            < heap[r].confidence_score
                      THEN << Head(sorted) >> \o insert(r, Tail(sorted))
                      ELSE << r >> \o sorted
         IN  insert(Head(results), rest)

\* a descending sort that is not stable: equal scores change places
RECURSIVE sort_by_confidence_unstable(_, _)
sort_by_confidence_unstable(heap, results) ==
    IF results = << >> THEN << >>
    ELSE LET rest == sort_by_confidence_unstable(heap, Tail(results))
             RECURSIVE insert(_, _)
             insert(r, sorted) ==
                 IF sorted = << >> THEN << r >>
                 ELSE IF heap[Head(sorted)].confidence_score
                            >= heap[r].confidence_score
                      THEN << Head(sorted) >> \o insert(r, Tail(sorted))
                      ELSE << r >> \o sorted
         IN  insert(Head(results), rest)

\* results.sort(key = confidence_score, reverse = True) on a list of
\* references: a stable sort, results of equal score keep their order
RECURSIVE sort_by_confidence(_, _)
sort_by_confidence(heap, results) ==
    IF results = << >> THEN << >>
    ELSE LET rest == sort_by_confidence(heap, Tail(results))
             RECURSIVE insert(_, _)
             insert(r, sorted) ==
                 IF sorted = << >> THEN << r >>
                 ELSE IF heap[Head(sorted)].confidence_score
                            > heap[r].confidence_score
                      THEN << Head(sorted) >> \o insert(r, Tail(sorted))
                      ELSE << r >> \o sorted
         IN  insert(Head(results), rest)

\* lines 86-107: the list of non-None candidates, then either the no_data
\* result (a new object) or the head of the sorted list
select_result(heap, product_id, hybrid_result, order_result, snapshot_result, estimated_result) ==
    LET results ==
            SelectSeq(<< hybrid_result, order_result, snapshot_result,
                         estimated_result >>, LAMBDA r : r # NoneRef)
    IN  IF results = << >> THEN Alloc(heap, no_data_result(product_id))
        ELSE [heap |-> heap, ref |-> sort_by_confidence(heap, results)[1]]

\* lines 86-112 on the four candidates (values), in a heap of their own
select_and_enrich(product_id, db, order_value, snapshot_value, heap3, h, estimated_value) ==
    LET e == Alloc(heap3, estimated_value)
        o == IF order_value = None THEN NoneRef ELSE 1
        sn == IF snapshot_value = None THEN NoneRef
              ELSE IF order_value = None THEN 1 ELSE 2
        f == select_result(e.heap, product_id, h, o, sn, e.ref)
    IN  IF h = NoneRef /\ e.ref = NoneRef THEN f.heap[f.ref]
        ELSE _enrich_with_patterns(f.heap, db.transactions, f.ref,
                                   db.spectrum)[f.ref]

\* lines 79-84 on the two estimates (values)
combine_and_estimate(product_id, db, order_value, snapshot_value, heap2) ==
    LET o == IF order_value = None THEN NoneRef ELSE 1
        sn == IF snapshot_value = None THEN NoneRef
              ELSE IF order_value = None THEN 1 ELSE 2
        h == _combine_results(heap2, o, sn)
    IN  select_and_enrich(product_id, db, order_value, snapshot_value,
                          h.heap, h.ref,
                          _estimate_from_notification_point(product_id,
                              db.product, db.config))

\* db: what the queries of one call read for the product.  The value of
\* the UsageResult returned by calculate_monthly_usage(product_id, client_id)
usage_from(product_id, db, order_value, snapshot_value) ==
    combine_and_estimate(product_id, db, order_value, snapshot_value,
        Alloc(Alloc(<< >>, order_value).heap, snapshot_value).heap)

calculate_monthly_usage(product_id, db) ==
    usage_from(product_id, db,
               _calculate_from_orders(product_id, db.transactions, db.now),
               _calculate_from_snapshots(product_id, db.stock_history,
                                         db.product.pack_size, db.now,
                                         db.lerp))

(***************************************************************************)
(* The data one call of calculate_monthly_usage can find                   *)
(***************************************************************************)
\* day number of datetime.now()
Now == 400

\* most stock_history rows of a product
MaxSnapshots == 4

OrderRowCounts == {0, 1, 2, 3, 6, 12}

OrderPatterns == {"flat", "rising", "spike", "returns", "zero"}

\* age in days of the month of the most recent transaction
OrderLastAges == {10, 100}

OrderValue(pattern, i, n) ==
    CASE pattern = "flat"    -> 4
      [] pattern = "rising"  -> i
      [] pattern = "spike"   -> IF i = n THEN 9 ELSE 1
      [] pattern = "returns" -> -3
      [] pattern = "zero"    -> 0

OrderRows(n, pattern, age) ==
    [i \in 1..n |->
        [month |-> Now - age - 30 * (n - i),
         total_units |-> OrderValue(pattern, i, n),
         total_packs |-> OrderValue(pattern, i, n)]]

\* monthly aggregates of the trailing 12 months (at most 396 days back)
TransactionHistories ==
    {OrderRows(0, "flat", 10)} \cup
    UNION {
        {OrderRows(n, pattern, age) :
            pattern \in OrderPatterns,
            age \in {a \in OrderLastAges : a + 30 * (n - 1) <= 396}} :
        n \in OrderRowCounts \ {0}}

\* a step from one snapshot to the next: stock change and days elapsed
SnapshotSteps ==
    {[delta |-> -6, gap |-> 30], [delta |-> -2, gap |-> 30],
     [delta |-> -6, gap |-> 0],  [delta |-> 3, gap |-> 90],
     [delta |-> -2, gap |-> 90]}

SnapshotLastAges == {5, 100}

RECURSIVE SnapshotRowsFrom(_, _, _)
SnapshotRowsFrom(day, units, steps) ==
    << [recorded_at |-> day, total_units |-> units] >> \o
    (IF steps = << >> THEN << >>
     ELSE SnapshotRowsFrom(day + Head(steps).gap,
                           units + Head(steps).delta, Tail(steps)))

RECURSIVE GapSum(_)
GapSum(steps) ==
    IF steps = << >> THEN 0 ELSE Head(steps).gap + GapSum(Tail(steps))

\* stock_history rows of the trailing 12 months (at most 366 days back)
SnapshotHistories ==
    {<< >>} \cup
    UNION {
        {SnapshotRowsFrom(Now - age - GapSum(steps), 30, steps) :
            steps \in {st \in [1..k -> SnapshotSteps] :
                          age + GapSum(st) <= 366}} :
        k \in 0..(MaxSnapshots - 1), age \in SnapshotLastAges}

ProductConfigs ==
    {[product |-> [pack_size |-> 1, notification_point |-> Null],
      config |-> Null],
     [product |-> [pack_size |-> 1, notification_point |-> Some(0)],
      config |-> Null],
     [product |-> [pack_size |-> 5, notification_point |-> Some(6)],
      config |-> Null],
     [product |-> [pack_size |-> 5, notification_point |-> Some(6)],
      config |-> Some([reorder_lead_days |-> 21, safety_stock_weeks |-> 4])],
     [product |-> [pack_size |-> 5, notification_point |-> Some(6)],
      config |-> Some([reorder_lead_days |-> 0, safety_stock_weeks |-> 0])],
     [product |-> [pack_size |-> 5, notification_point |-> Some(-6)],
      config |-> Null]}

HasInfRate(rows) ==
    \E i \in 1..Len(consumption_rates(rows)) :
        consumption_rates(rows)[i].k = "inf"

\* the representative order histories, snapshot histories and products
\* that are combined with every value of the other two kinds
CoreTransactionHistories ==
    {OrderRows(0, "flat", 10)} \cup
    {OrderRows(n, "flat", 10) : n \in {3, 6, 12}} \cup
    {OrderRows(6, "spike", 10)}

CoreSnapshotHistories == {sh \in SnapshotHistories : Len(sh) <= 2}

CoreProductConfigs ==
    {p \in ProductConfigs :
        p.config = Null /\ p.product.notification_point \in {Null, Some(6)}}

Database(t, sh, p, l, sp) ==
    [transactions |-> t, stock_history |-> sh, product |-> p.product,
     config |-> p.config, now |-> Now, lerp |-> l, spectrum |-> sp]

\* outcomes of the quantile interpolation: open only when an inf rate exists
LerpOutcomes(sh) == IF HasInfRate(sh) THEN {"inf", "nan"} ELSE {"inf"}

\* outcomes of the spectral analysis: open only when it is run (12 points)
SpectrumOutcomes(t) == IF Len(t) >= 12 THEN BOOLEAN ELSE {FALSE}

DatabasesOf(T, SH, P) ==
    UNION {UNION {{Database(t, sh, p, l, sp) :
                      p \in P, l \in LerpOutcomes(sh),
                      sp \in SpectrumOutcomes(t)} :
                  sh \in SH} :
           t \in T}

\* fourteen weekly snapshots, the last five days old: twelve weeks of
\* steady consumption and one heavier week
SteadyWeeklyHistory ==
    SnapshotRowsFrom(Now - 5 - 7 * 13, 40,
        [i \in 1..13 |-> [delta |-> IF i = 13 THEN -6 ELSE -2, gap |-> 7]])

\* two uneven months of orders, the more recent one 75 days back
TwoUnevenMonths ==
    << [month |-> Now - 105, total_units |-> 1, total_packs |-> 1],
       [month |-> Now - 75, total_units |-> 3, total_packs |-> 3] >>

\* everything the queries of one call read: every order history and
\* product with the short snapshot histories, every snapshot history with
\* the representative order histories and products, and a long steady
\* snapshot history next to a short order history
Databases ==
    DatabasesOf(TransactionHistories, CoreSnapshotHistories, ProductConfigs)
    \cup
    DatabasesOf(CoreTransactionHistories, SnapshotHistories,
                CoreProductConfigs)
    \cup
    DatabasesOf({TwoUnevenMonths}, {SteadyWeeklyHistory}, CoreProductConfigs)

(***************************************************************************)
(* State                                                                   *)
(***************************************************************************)
VARIABLES
    db,                \* rows the queries return for the product
    heap,              \* the UsageResult objects created by the call
    order_result,      \* locals of calculate_monthly_usage (references)
    snapshot_result,
    hybrid_result,
    estimated_result,
    final_result,
    pc,                \* position in calculate_monthly_usage
    products,          \* committed rows of the products table, by id
    session,           \* rows with attribute writes pending in the Session
    driver_pc,         \* position of the batch driver that is running
    product_ids,       \* the ids the driver's loop goes through
    idx,               \* position of the loop in product_ids
    results,           \* the response list of calculate_usage_batch
    log,               \* the events the driver has logged
    consecutive_failures,
    db_circuit_breaker,
    clock,             \* datetime.now(), in seconds
    call,              \* the function last called on its own, with its arguments
    ret,               \* what that call returned
    failures_in_a_row, \* record_failure calls since the last record_success
    half_open_grants,  \* can_execute calls let through since HALF_OPEN was set
    database,          \* the module-level variables of python-importer/database.py
    initialization,    \* the call of initialize_database: its locals and history
    pg,                \* the PostgreSQL database the importer processes share
    importer           \* the locals of each running process_import_cli

usageVars ==
    << db, heap, order_result, snapshot_result, hybrid_result,
       estimated_result, final_result, pc >>

driverVars ==
    << products, session, driver_pc, product_ids, idx, results, log,
       consecutive_failures, db_circuit_breaker, clock >>

functionVars == << call, ret >>

breakerVars == << failures_in_a_row, half_open_grants >>

databaseVars == << database, initialization >>

importVars == << pg, importer >>

serviceVars == << breakerVars, databaseVars, importVars >>

vars == << usageVars, driverVars, functionVars, serviceVars >>

\* no function has been called on its own
NoCall ==
    /\ call = [op |-> "none"]
    /\ ret = << >>

\* nothing has been called on the circuit breaker
NoBreakerCalls ==
    /\ failures_in_a_row = 0
    /\ half_open_grants = 0

\* database.py as imported: nothing initialized, initialize_database not called
NotInitialized ==
    /\ database = [engine |-> "None", SessionLocal |-> "None", _initialized |-> FALSE]
    /\ initialization = [pc |-> "idle", retry_delay |-> 0, slept |-> << >>, outcomes |-> << >>, raised |-> "none", calls |-> 0, successes |-> 0]

\* no importer process runs and its database is not looked at
NoImport ==
    /\ pg = << >>
    /\ importer = << >>

\* the state of the other services, which no call here touches
ServicesIdle ==
    /\ NoBreakerCalls
    /\ NotInitialized
    /\ NoImport

\* no batch driver runs
DriversIdle ==
    /\ products = << >>
    /\ session = << >>
    /\ driver_pc = "idle"
    /\ product_ids = << >>
    /\ idx = 1
    /\ results = << >>
    /\ log = << >>
    /\ consecutive_failures = 0
    /\ db_circuit_breaker =
           [state |-> "CLOSED", failure_count |-> 0,
            last_failure_time |-> Null]
    /\ clock = 0

ProductId == "p1"

UsageInit ==
    /\ db \in Databases
    /\ heap = << >>
    /\ order_result = NoneRef
    /\ snapshot_result = NoneRef
    /\ hybrid_result = NoneRef
    /\ estimated_result = NoneRef
    /\ final_result = NoneRef
    /\ pc = "orders"
    /\ DriversIdle
    /\ NoCall
    /\ ServicesIdle

\* line 73
CalcFromOrders ==
    /\ pc = "orders"
    /\ LET r == Alloc(heap, _calculate_from_orders(ProductId,
                                db.transactions, db.now))
       IN  heap' = r.heap /\ order_result' = r.ref
    /\ pc' = "snapshots"
    /\ UNCHANGED << db, snapshot_result, hybrid_result, estimated_result,
                    final_result >>
    /\ UNCHANGED << driverVars, functionVars, serviceVars >>

\* line 76
CalcFromSnapshots ==
    /\ pc = "snapshots"
    /\ LET r == Alloc(heap, _calculate_from_snapshots(ProductId,
                                db.stock_history, db.product.pack_size,
                                db.now, db.lerp))
       IN  heap' = r.heap /\ snapshot_result' = r.ref
    /\ pc' = "combine"
    /\ UNCHANGED << db, order_result, hybrid_result, estimated_result,
                    final_result >>
    /\ UNCHANGED << driverVars, functionVars, serviceVars >>

\* line 79
CombineResults ==
    /\ pc = "combine"
    /\ LET r == _combine_results(heap, order_result, snapshot_result)
       IN  heap' = r.heap /\ hybrid_result' = r.ref
    /\ pc' = "estimate"
    /\ UNCHANGED << db, order_result, snapshot_result, estimated_result,
                    final_result >>
    /\ UNCHANGED << driverVars, functionVars, serviceVars >>

\* lines 82-84
EstimateFromNotificationPoint ==
    /\ pc = "estimate"
    /\ LET r == Alloc(heap, _estimate_from_notification_point(ProductId,
                                db.product, db.config))
       IN  heap' = r.heap /\ estimated_result' = r.ref
    /\ pc' = "select"
    /\ UNCHANGED << db, order_result, snapshot_result, hybrid_result,
                    final_result >>
    /\ UNCHANGED << driverVars, functionVars, serviceVars >>

\* lines 86-107: return the no_data result at once, or pick the best
SelectResult ==
    /\ pc = "select"
    /\ LET r == select_result(heap, ProductId, hybrid_result, order_result,
                              snapshot_result, estimated_result)
       IN  /\ heap' = r.heap
           /\ final_result' = r.ref
           /\ pc' = IF r.ref \in DOMAIN heap THEN "enrich" ELSE "done"
    /\ UNCHANGED << db, order_result, snapshot_result, hybrid_result,
                    estimated_result >>
    /\ UNCHANGED << driverVars, functionVars, serviceVars >>

\* lines 110-112
EnrichWithPatterns ==
    /\ pc = "enrich"
    /\ heap' = _enrich_with_patterns(heap, db.transactions, final_result,
                                     db.spectrum)
    /\ pc' = "done"
    /\ UNCHANGED << db, order_result, snapshot_result, hybrid_result,
                    estimated_result, final_result >>
    /\ UNCHANGED << driverVars, functionVars, serviceVars >>

UsageNext ==
    \/ CalcFromOrders
    \/ CalcFromSnapshots
    \/ CombineResults
    \/ EstimateFromNotificationPoint
    \/ SelectResult
    \/ EnrichWithPatterns

Init == UsageInit

Next == UsageNext

Spec == Init /\ [][Next]_vars

(***************************************************************************)
(* Properties of calculate_monthly_usage                                   *)
(***************************************************************************)
\* the non-None candidates, in the order of the list at line 87
Candidates ==
    SelectSeq(<< hybrid_result, order_result, snapshot_result,
                 estimated_result >>, LAMBDA r : r # NoneRef)

Returned == heap[final_result]

IsZeroUsageNoData(r) ==
    /\ r.calculation_method = "no_data"
    /\ r.confidence_score = 0
    /\ r.monthly_usage_units = F(0, 1)

\* C1: the call returns the zero-usage no_data result exactly when all four
\* candidates are None; otherwise it returns one of the candidates, and no
\* other candidate has a higher confidence_score.
C1_SelectsBestOrNoData ==
    pc = "done" =>
        /\ IsZeroUsageNoData(Returned) <=> Candidates = << >>
        /\ Candidates # << >> =>
            /\ \E i \in 1..Len(Candidates) : Candidates[i] = final_result
            /\ \A i \in 1..Len(Candidates) :
                  Returned.confidence_score
                      >= heap[Candidates[i]].confidence_score

\* C1 witness: a finished call that had to choose among candidates of
\* different confidence, with all four candidates present
C1_Witness ==
    /\ pc = "done"
    /\ Len(Candidates) = 4
    /\ hybrid_result \notin {order_result, snapshot_result}
    /\ heap[order_result].confidence_score
          # heap[snapshot_result].confidence_score
    /\ Returned.confidence_score > heap[estimated_result].confidence_score

\* C2: every estimate produced by an estimator or returned by the call has
\* monthly_usage_units >= 0.
C2_UsageNeverNegative ==
    \A i \in DOMAIN heap : FSign(heap[i].monthly_usage_units) >= 0

\* C3: every estimate produced (order, snapshot, notification point, hybrid,
\* no_data) has a confidence_score within [0, 1].
C3_ConfidenceInUnitInterval ==
    \A i \in DOMAIN heap :
        heap[i].confidence_score >= 0 /\ heap[i].confidence_score <= ConfScale

\* C3 witness: a hybrid estimate whose confidence is held at 1.0 by the cap
C3_Witness ==
    /\ pc = "done"
    /\ hybrid_result \notin {NoneRef, order_result, snapshot_result}
    /\ heap[hybrid_result].confidence_score = ConfScale
    /\ 2 * (heap[order_result].confidence_score
            + heap[snapshot_result].confidence_score) > 3 * ConfScale

BothSucceeded ==
    /\ pc \notin {"orders", "snapshots", "combine"}
    /\ order_result # NoneRef
    /\ snapshot_result # NoneRef

TierOfMonths(m) ==
    IF m >= 12 THEN "12_month"
    ELSE IF m >= 6 THEN "6_month"
    ELSE IF m >= 3 THEN "3_month"
    ELSE "weekly"

C6_TieBreakByCandidateOrder ==
    pc = "done" /\ Candidates # << >> =>
        \E i \in 1..Len(Candidates) :
            /\ final_result = Candidates[i]
            /\ \A j \in 1..Len(Candidates) :
                  /\ heap[Candidates[j]].confidence_score
                        <= heap[Candidates[i]].confidence_score
                  /\ j < i => heap[Candidates[j]].confidence_score
                                < heap[Candidates[i]].confidence_score

\* C6 witness: the hybrid estimate and the snapshot estimate, two different
\* objects, share the highest confidence and the call returned the hybrid
C6_Witness ==
    /\ pc = "done"
    /\ order_result # NoneRef
    /\ snapshot_result # NoneRef
    /\ hybrid_result \notin {order_result, snapshot_result}
    /\ heap[snapshot_result].confidence_score
          = heap[hybrid_result].confidence_score
    /\ final_result = hybrid_result

\* the effect _combine_results must have in one step of the call
CombinePolicyStep ==
    LET o == order_result
        sn == snapshot_result
        h == heap'[hybrid_result']
        c == heap[o].confidence_score + heap[sn].confidence_score
    IN  /\ \A i \in DOMAIN heap : heap'[i] = heap[i]
        /\ order_result' = o /\ snapshot_result' = sn
        /\ o = NoneRef /\ sn = NoneRef => hybrid_result' = NoneRef
        /\ o = NoneRef /\ sn # NoneRef => hybrid_result' = sn
        /\ o # NoneRef /\ sn = NoneRef => hybrid_result' = o
        /\ o # NoneRef /\ sn # NoneRef =>
            /\ hybrid_result' \notin DOMAIN heap
            /\ hybrid_result' \in DOMAIN heap'
            /\ h.calculation_method = "hybrid"
            /\ FScale(h.monthly_usage_units, c, 1)
                  = FAdd(FScale(heap[o].monthly_usage_units,
                                heap[o].confidence_score, 1),
                         FScale(heap[sn].monthly_usage_units,
                                heap[sn].confidence_score, 1))
            /\ h.data_months = Max2(heap[o].data_months, heap[sn].data_months)
            /\ h.outliers_detected
                  = heap[o].outliers_detected + heap[sn].outliers_detected
            /\ FScale(h.variance, 2, 1) = FAdd(heap[o].variance, heap[sn].variance)
            /\ FScale(h.cv, 2, 1) = FAdd(heap[o].cv, heap[sn].cv)
            /\ h.days_since_last_data
                  = Min2(heap[o].days_since_last_data,
                         heap[sn].days_since_last_data)

\* C7: _combine_results returns None when both inputs are None, the single
\* input when only one is present, and otherwise a new 'hybrid' estimate
\* (confidence-weighted mean usage, max data_months, summed outliers, mean
\* variance and cv, min days_since_last_data); the input estimates are left
\* as they were.
C7_CombinePolicy == [][pc = "combine" => CombinePolicyStep]_vars

\* C7 witness: the merge has built a new estimate from two estimates that
\* differ in usage and in confidence
C7_Witness ==
    /\ pc = "estimate"
    /\ order_result # NoneRef
    /\ snapshot_result # NoneRef
    /\ hybrid_result \notin {order_result, snapshot_result}
    /\ heap[order_result].monthly_usage_units
          # heap[snapshot_result].monthly_usage_units
    /\ heap[order_result].confidence_score
          # heap[snapshot_result].confidence_score
    /\ heap[order_result].calculation_method = "order_fulfillment"

\* the effect enrichment must have in one step of the call
EnrichFrameStep ==
    /\ final_result' = final_result
    /\ DOMAIN heap' = DOMAIN heap
    /\ \A i \in DOMAIN heap \ {final_result} : heap'[i] = heap[i]
    /\ [heap'[final_result] EXCEPT
          !.trend_direction = heap[final_result].trend_direction,
          !.seasonality_detected = heap[final_result].seasonality_detected]
       = heap[final_result]

\* C8: enrichment changes only trend_direction and seasonality_detected of
\* the selected estimate, and with fewer than 3 monthly order rows the
\* estimate is returned with trend 'unknown' and seasonality False.
C8_EnrichFrame ==
    [][/\ pc = "enrich" => EnrichFrameStep
       /\ pc' = "done" /\ Len(db.transactions) < 3 =>
             /\ heap'[final_result'].trend_direction = "unknown"
             /\ heap'[final_result'].seasonality_detected = FALSE]_vars

\* C8 witness: a returned estimate whose two pattern fields were both set
\* by the enrichment
C8_Witness ==
    /\ pc = "done"
    /\ Returned.trend_direction = "stable"
    /\ Returned.seasonality_detected
    /\ Returned.calculation_method = "hybrid"

\* the snapshot estimator has returned
SnapshotsDone == pc \notin {"orders", "snapshots"}

\* the consumption events of the stock history whose daily rate is positive
PositiveRateEvents ==
    {i \in 2..Len(db.stock_history) :
        db.stock_history[i].total_units < db.stock_history[i - 1].total_units}

\* C21: the snapshot-delta estimator returns None only when there are fewer
\* than 2 snapshots or no consumption event with a positive daily rate;
\* with at least one such event the trim of the top 5% leaves a rate and an
\* estimate is returned
C21_NoneOnlyWithoutEvents ==
    (SnapshotsDone /\ snapshot_result = NoneRef) =>
        Len(db.stock_history) < 2 \/ PositiveRateEvents = {}

\* the estimates of the two estimators that read data, as far as they exist
DataBackedEstimates ==
    {heap[r] : r \in {order_result, snapshot_result} \ {NoneRef}}

\* C22: calculate_monthly_usage returns the notification-point estimate
\* (method 'estimated', confidence 0.3) only when the order and the snapshot
\* estimator both returned None: every estimate of theirs has a confidence
\* strictly above 0.3
C22_FallbackNeverOutranksData ==
    /\ \A e \in DataBackedEstimates : e.confidence_score > Conf(30)
    /\ (pc = "done" /\ Returned.calculation_method = "estimated") =>
            order_result = NoneRef /\ snapshot_result = NoneRef

\* a weak order estimate (0.38) next to a notification-point estimate: the
\* order estimate is the one returned
C22_Witness ==
    /\ pc = "done"
    /\ estimated_result # NoneRef
    /\ order_result # NoneRef
    /\ snapshot_result = NoneRef
    /\ heap[order_result].confidence_score = Conf(38)
    /\ Returned.calculation_method = "order_fulfillment"

(***************************************************************************)
(* utils/statistical.py: the stock metrics the batch endpoint derives      *)
(***************************************************************************)
\* round(x, 2) of a finite float, as a float on the grid of hundredths
round_hundredths(x) ==
    IF x.n >= 0 THEN F((200 * x.n + x.d) \div (2 * x.d), 100)
    ELSE F(-((200 * (-x.n) + x.d) \div (2 * x.d)), 100)

\* available_quantity is an integer count, monthly_usage a float
calculate_weeks_remaining(available_quantity, monthly_usage) ==
    IF monthly_usage.k = "nan" THEN Some(NaN)
    ELSE IF monthly_usage.k = "inf" THEN Some(F(0, 1))
    ELSE IF monthly_usage.n <= 0 THEN Null
    ELSE Some(round_hundredths(
             F(available_quantity * 433 * monthly_usage.d,
               100 * monthly_usage.n)))

\* classify_stock_status with the boundary values in the upper tier
classify_stock_status_exclusive(weeks_remaining) ==
    IF weeks_remaining = Null THEN "unknown"
    ELSE LET w == weeks_remaining[1]
         IN  IF w.k = "nan" THEN "healthy"
             ELSE IF FLess(w, F(2, 1)) THEN "critical"
             ELSE IF FLess(w, F(4, 1)) THEN "low"
             ELSE IF FLess(w, F(8, 1)) THEN "watch"
             ELSE "healthy"

classify_stock_status(weeks_remaining) ==
    IF weeks_remaining = Null THEN "unknown"
    ELSE LET w == weeks_remaining[1]
         IN  IF w.k = "nan" THEN "healthy"
             ELSE IF ~FLess(F(2, 1), w) THEN "critical"
             ELSE IF ~FLess(F(4, 1), w) THEN "low"
             ELSE IF ~FLess(F(8, 1), w) THEN "watch"
             ELSE "healthy"

(***************************************************************************)
(* main.py: the circuit breaker of the database                            *)
(***************************************************************************)
FAILURE_THRESHOLD == 5

RECOVERY_TIMEOUT == 60

\* record_success closing the breaker without forgetting the failures
record_success_keeps_count(breaker) == [breaker EXCEPT !.state = "CLOSED"]

record_success(breaker) ==
    [breaker EXCEPT !.failure_count = 0, !.state = "CLOSED"]

\* the breaker opening only once the threshold is exceeded
record_failure_above_threshold(breaker, now) ==
    LET failure_count == breaker.failure_count + 1
    IN  [breaker EXCEPT
            !.failure_count = failure_count,
            !.last_failure_time = Some(now),
            !.state = IF failure_count > FAILURE_THRESHOLD THEN "OPEN"
                      ELSE @]

record_failure(breaker, now) ==
    LET failure_count == breaker.failure_count + 1
    IN  [breaker EXCEPT
            !.failure_count = failure_count,
            !.last_failure_time = Some(now),
            !.state = IF failure_count >= FAILURE_THRESHOLD THEN "OPEN"
                      ELSE @]

\* can_execute letting a request through only after the timeout has passed
can_execute_after_timeout(breaker, now) ==
    IF breaker.state = "CLOSED" THEN [breaker |-> breaker, allowed |-> TRUE]
    ELSE IF breaker.state = "OPEN"
    THEN IF /\ breaker.last_failure_time # Null
            /\ now - breaker.last_failure_time[1] > RECOVERY_TIMEOUT
         THEN [breaker |-> [breaker EXCEPT !.state = "HALF_OPEN"],
               allowed |-> TRUE]
         ELSE [breaker |-> breaker, allowed |-> FALSE]
    ELSE [breaker |-> breaker, allowed |-> TRUE]

\* the breaker after the call and the value the call returns
can_execute(breaker, now) ==
    IF breaker.state = "CLOSED" THEN [breaker |-> breaker, allowed |-> TRUE]
    ELSE IF breaker.state = "OPEN"
    THEN IF /\ breaker.last_failure_time # Null
            /\ now - breaker.last_failure_time[1] >= RECOVERY_TIMEOUT
         THEN [breaker |-> [breaker EXCEPT !.state = "HALF_OPEN"],
               allowed |-> TRUE]
         ELSE [breaker |-> breaker, allowed |-> FALSE]
    ELSE [breaker |-> breaker, allowed |-> TRUE]

(***************************************************************************)
(* models/database.py: the products table and the Session                  *)
(***************************************************************************)
\* most rows of the products table
MaxProducts == 10

\* most product ids in one request of the batch endpoint
MaxRequest == 3

ClientId == "c1"

\* a row of products: exactly the columns the Product class declares
\* (created_at and updated_at, which nothing here reads or writes, left out)
Product(id, pack_size, notification_point, is_active) ==
    [id |-> id,
     client_id |-> ClientId,
     product_id |-> id,
     name |-> id,
     pack_size |-> pack_size,
     current_stock_packs |-> 10,
     current_stock_units |-> 10 * pack_size,
     notification_point |-> notification_point,
     item_type |-> "evergreen",
     is_active |-> is_active,
     monthly_usage_units |-> Null,
     monthly_usage_packs |-> Null,
     usage_data_months |-> Null,
     usage_calculation_tier |-> Null,
     usage_confidence |-> Null,
     usage_last_calculated |-> Null,
     usage_calculation_method |-> Null,
     usage_trend |-> Null,
     seasonality_detected |-> FALSE,
     weeks_remaining |-> Null,
     stock_status |-> Null,
     projected_stockout_date |-> Null,
     stockout_confidence |-> Null,
     suggested_reorder_qty |-> Null,
     reorder_qty_last_updated |-> Null]

\* the row of client_configurations of the client, with the column defaults
client_configuration ==
    Some([reorder_lead_days |-> 14, safety_stock_weeks |-> 2])

\* the products of the client: every fourth one is inactive; the rows the
\* estimators find differ from product to product (see RowsOf)
ProductTable ==
    [id \in 1..MaxProducts |->
        Product(id,
                IF id % 3 = 2 THEN 5 ELSE 1,
                IF id % 3 = 2 THEN Some(6) ELSE Null,
                id % 4 # 0)]

\* what the queries of calculate_monthly_usage read for a product: a year of
\* steady orders, nothing but a notification point, or nothing at all
RowsOf(product) ==
    [transactions  |-> IF product.id % 3 = 1 THEN OrderRows(12, "flat", 10)
                       ELSE << >>,
     stock_history |-> << >>,
     product       |-> product,
     config        |-> client_configuration,
     now           |-> Now,
     lerp          |-> "inf",
     spectrum      |-> FALSE]

\* Session.commit(): the pending attribute writes reach the table
commit(table, pending) ==
    [id \in DOMAIN table |->
        IF id \in DOMAIN pending THEN pending[id] ELSE table[id]]

\* Session.rollback() leaving the pending writes in the Session
rollback_keeps_pending(pending) == pending

\* Session.rollback(): the pending attribute writes are discarded
rollback(pending) == << >>

\* the Session after attribute writes on the loaded row of a product
dirty(pending, row) ==
    [id \in DOMAIN pending \cup {row.id} |->
        IF id = row.id THEN row ELSE pending[id]]

\* what calculate_monthly_usage returns for an id, as a one-element set: the
\* estimate from the rows of the product, the no_data result for an id
\* that has no row in any table
usage_of(table, product_id) ==
    IF product_id \in DOMAIN table
    THEN {calculate_monthly_usage(product_id, RowsOf(table[product_id]))}
    ELSE {no_data_result(product_id)}

\* an exception raised by an attribute read
AttributeError == [raised |-> "AttributeError"]

get_effective_lead_time(product, client_config) ==
    IF "total_lead_days" \notin DOMAIN product THEN AttributeError
    ELSE IF Truthy(product.total_lead_days) /\ product.total_lead_days[1] > 0
    THEN << product.total_lead_days[1], "product" >>
    ELSE IF /\ client_config # Null
            /\ client_config[1].reorder_lead_days > 0
    THEN << client_config[1].reorder_lead_days, "client_config" >>
    ELSE << 14, "default" >>

(***************************************************************************)
(* main.py: calculate_usage_batch                                          *)
(***************************************************************************)
Event(event, product_id) == [event |-> event, product_id |-> product_id]

\* an event that is not about one product
NoProduct == -1

\* the ids a request names: the unknown id 0 and one product of each kind
RequestIds == {0, 1, 2, 3}

\* the request bodies: up to MaxRequest ids, repetitions included
Requests ==
    UNION {[1..n -> RequestIds] : n \in 1..MaxRequest}

\* the faults of the database connection during one loop iteration: none,
\* a query raising, the commit raising
Faults == {"none", "query", "commit"}

\* `break` in place of `continue` in the except clause of the loop
break_after_failure(position, ids) == Len(ids) + 1

\* `continue` in the except clause of the loop: on to the next id
continue_after_failure(position, ids) == position + 1

\* the attribute writes of lines 418-432 on the loaded row (the stockout
\* and reorder columns of lines 429-431 keep their value here: they come
\* from predict_stockout_date and calculate_reorder_quantity)
batch_updated_row(product, usage_result, weeks_remaining, stock_status, now) ==
    [product EXCEPT
        !.monthly_usage_units = Some(usage_result.monthly_usage_units),
        !.monthly_usage_packs = Some(usage_result.monthly_usage_packs),
        !.usage_data_months = Some(usage_result.data_months),
        !.usage_calculation_tier = Some(usage_result.calculation_tier),
        !.usage_confidence = Some(usage_result.confidence_level),
        !.usage_last_calculated = Some(now),
        !.usage_calculation_method = Some(usage_result.calculation_method),
        !.usage_trend = Some(usage_result.trend_direction),
        !.seasonality_detected = usage_result.seasonality_detected,
        !.weeks_remaining = weeks_remaining,
        !.stock_status = Some(stock_status),
        !.reorder_qty_last_updated = Some(now)]

\* the response entry of lines 437-457
UsageCalculationResponse(product, usage_result, weeks_remaining, stock_status) ==
    [product_id |-> product.id,
     product_name |-> product.name,
     monthly_usage_units |-> usage_result.monthly_usage_units,
     monthly_usage_packs |-> usage_result.monthly_usage_packs,
     weeks_remaining |-> weeks_remaining,
     stock_status |-> stock_status,
     calculation_method |-> usage_result.calculation_method,
     confidence_score |-> usage_result.confidence_score,
     confidence_level |-> usage_result.confidence_level,
     data_months |-> usage_result.data_months,
     calculation_tier |-> usage_result.calculation_tier,
     trend |-> usage_result.trend_direction,
     seasonality_detected |-> usage_result.seasonality_detected,
     outliers_detected |-> usage_result.outliers_detected]

\* lines 318-329
StartBatch ==
    /\ driver_pc = "idle"
    /\ \E request \in Requests : product_ids' = request
    /\ idx' = 1
    /\ results' = << >>
    /\ log' = Append(log, Event("usage_calculation_batch_started", NoProduct))
    /\ driver_pc' = "batch"
    /\ UNCHANGED << products, session, consecutive_failures,
                    db_circuit_breaker, clock >>
    /\ UNCHANGED << usageVars, functionVars, serviceVars >>

\* lines 331-474: one iteration of the loop.  The first thing to raise
\* decides the iteration: the product query, calculate_monthly_usage (its
\* queries), get_effective_lead_time, or the commit.
ProcessBatchProduct ==
    /\ driver_pc = "batch"
    /\ idx <= Len(product_ids)
    /\ \E fault \in Faults :
       \E usage_result \in usage_of(products, product_ids[idx]) :
        LET product_id == product_ids[idx]
            found == product_id \in DOMAIN products
            product == products[product_id]
            weeks_remaining ==
                calculate_weeks_remaining(product.current_stock_packs,
                                          usage_result.monthly_usage_packs)
            stock_status == classify_stock_status(weeks_remaining)
            lead_time == get_effective_lead_time(product,
                                                 client_configuration)
            row == batch_updated_row(product, usage_result, weeks_remaining,
                                     stock_status, clock)
        IN  IF fault # "query" /\ ~found
            THEN \* lines 335-337
                 /\ log' = Append(log, Event("product_not_found", product_id))
                 /\ idx' = idx + 1
                 /\ UNCHANGED << products, session, results >>
            ELSE IF fault = "query" \/ lead_time = AttributeError
            THEN \* lines 466-474, nothing written yet
                 /\ log' = Append(log, Event("usage_calculation_failed",
                                             product_id))
                 /\ session' = rollback(session)
                 /\ idx' = continue_after_failure(idx, product_ids)
                 /\ UNCHANGED << products, results >>
            ELSE IF fault = "commit"
            THEN \* lines 466-474, after the attribute writes
                 /\ log' = Append(log, Event("usage_calculation_failed",
                                             product_id))
                 /\ session' = rollback(dirty(session, row))
                 /\ idx' = continue_after_failure(idx, product_ids)
                 /\ UNCHANGED << products, results >>
            ELSE \* lines 418-464
                 /\ products' = commit(products, dirty(session, row))
                 /\ session' = << >>
                 /\ results' = Append(results,
                        UsageCalculationResponse(product, usage_result,
                                                 weeks_remaining,
                                                 stock_status))
                 /\ log' = Append(log, Event("usage_calculated", product_id))
                 /\ idx' = idx + 1
    /\ UNCHANGED << driver_pc, product_ids, consecutive_failures,
                    db_circuit_breaker, clock >>
    /\ UNCHANGED << usageVars, functionVars, serviceVars >>

\* lines 476-482, and get_db closing the Session
ReturnBatch ==
    /\ driver_pc = "batch"
    /\ idx > Len(product_ids)
    /\ log' = Append(log, Event("usage_calculation_batch_completed",
                                NoProduct))
    /\ session' = << >>
    /\ driver_pc' = "returned"
    /\ UNCHANGED << products, product_ids, idx, results,
                    consecutive_failures, db_circuit_breaker, clock >>
    /\ UNCHANGED << usageVars, functionVars, serviceVars >>

(***************************************************************************)
(* main.py: recalculate_client_usage_background                            *)
(***************************************************************************)
MAX_CONSECUTIVE_FAILURES == 5

\* line 573 missing: the counter is left as it is after a commit
kept_on_success(failures) == failures

\* line 573: consecutive_failures = 0 after a commit
reset_on_success(failures) == 0

RECURSIVE Ascending(_)
Ascending(ids) ==
    IF ids = {} THEN << >>
    ELSE LET least == CHOOSE id \in ids : \A other \in ids : id <= other
         IN  << least >> \o Ascending(ids \ {least})

Reversed(ids) == [i \in 1..Len(ids) |-> ids[Len(ids) + 1 - i]]

\* lines 535-540: the ids of the active products of the client
active_product_ids(table, client_id) ==
    Ascending({id \in DOMAIN table :
                  table[id].client_id = client_id /\ table[id].is_active})

\* the attribute writes of lines 566-570 on the loaded row
background_updated_row(product, usage_result, now) ==
    [product EXCEPT
        !.monthly_usage_units = Some(usage_result.monthly_usage_units),
        !.monthly_usage_packs = Some(usage_result.monthly_usage_packs),
        !.usage_confidence = Some(usage_result.confidence_level),
        !.usage_last_calculated = Some(now),
        !.usage_calculation_method = Some(usage_result.calculation_method)]

\* lines 518-543: the breaker check and the query of the products, which
\* returns its rows in an order the query does not fix
StartBackground ==
    /\ driver_pc = "idle"
    /\ LET check == can_execute(db_circuit_breaker, clock)
       IN  /\ db_circuit_breaker' = check.breaker
           /\ IF ~check.allowed
              THEN /\ log' = Append(log,
                        Event("client_recalculation_skipped_circuit_open",
                              NoProduct))
                   /\ driver_pc' = "returned"
                   /\ UNCHANGED product_ids
              ELSE \E fault \in {"none", "query"} :
                   \E ids \in {active_product_ids(products, ClientId),
                               Reversed(active_product_ids(products,
                                                           ClientId))} :
                     IF fault = "query"
                     THEN \* lines 593-601
                          /\ log' = Append(log,
                                Event("client_recalculation_failed",
                                      NoProduct))
                          /\ driver_pc' = "returned"
                          /\ UNCHANGED product_ids
                     ELSE /\ log' = Append(log,
                                Event("client_recalculation_started",
                                      NoProduct))
                          /\ driver_pc' = "background"
                          /\ product_ids' = ids
    /\ idx' = 1
    /\ consecutive_failures' = 0
    /\ UNCHANGED << products, session, results, clock >>
    /\ UNCHANGED << usageVars, functionVars, serviceVars >>

\* lines 547-555
AbortBackground ==
    /\ driver_pc = "background"
    /\ idx <= Len(product_ids)
    /\ consecutive_failures >= MAX_CONSECUTIVE_FAILURES
    /\ log' = Append(log, Event("client_recalculation_aborted", NoProduct))
    /\ db_circuit_breaker' = record_failure(db_circuit_breaker, clock)
    /\ idx' = Len(product_ids) + 1
    /\ UNCHANGED << products, session, driver_pc, product_ids, results,
                    consecutive_failures, clock >>
    /\ UNCHANGED << usageVars, functionVars, serviceVars >>

\* lines 557-585: one iteration of the loop
ProcessBackgroundProduct ==
    /\ driver_pc = "background"
    /\ idx <= Len(product_ids)
    /\ consecutive_failures < MAX_CONSECUTIVE_FAILURES
    /\ \E fault \in Faults :
       \E usage_result \in usage_of(products, product_ids[idx]) :
        LET product_id == product_ids[idx]
            found == product_id \in DOMAIN products
            product == products[product_id]
            row == background_updated_row(product, usage_result, clock)
        IN  IF fault = "query"
            THEN \* lines 576-585, nothing written yet
                 /\ consecutive_failures' = consecutive_failures + 1
                 /\ log' = Append(log, Event("product_calculation_failed",
                                             product_id))
                 /\ session' = rollback(session)
                 /\ UNCHANGED << products, db_circuit_breaker >>
            ELSE IF ~found
            THEN \* line 565: no row, nothing to write
                 UNCHANGED << products, session, log, consecutive_failures,
                              db_circuit_breaker >>
            ELSE IF fault = "commit"
            THEN \* lines 576-585, after the attribute writes
                 /\ consecutive_failures' = consecutive_failures + 1
                 /\ log' = Append(log, Event("product_calculation_failed",
                                             product_id))
                 /\ session' = rollback(dirty(session, row))
                 /\ UNCHANGED << products, db_circuit_breaker >>
            ELSE \* lines 566-574
                 /\ products' = commit(products, dirty(session, row))
                 /\ session' = << >>
                 /\ consecutive_failures' =
                        reset_on_success(consecutive_failures)
                 /\ db_circuit_breaker' = record_success(db_circuit_breaker)
                 /\ log' = Append(log, Event("product_updated", product_id))
    /\ idx' = idx + 1
    /\ UNCHANGED << driver_pc, product_ids, results, clock >>
    /\ UNCHANGED << usageVars, functionVars, serviceVars >>

\* lines 587-601: the loop is over; the Session is closed
ReturnBackground ==
    /\ driver_pc = "background"
    /\ idx > Len(product_ids)
    /\ log' = Append(log, Event("client_recalculation_completed", NoProduct))
    /\ session' = << >>
    /\ driver_pc' = "returned"
    /\ UNCHANGED << products, product_ids, idx, results,
                    consecutive_failures, db_circuit_breaker, clock >>
    /\ UNCHANGED << usageVars, functionVars, serviceVars >>

(***************************************************************************)
(* The batch drivers: one run of either, on the products of one client     *)
(***************************************************************************)
\* the states of the breaker a run can start in, and the time of the start
BreakerStates ==
    {[state |-> "CLOSED", failure_count |-> 0, last_failure_time |-> Null],
     [state |-> "CLOSED", failure_count |-> 4, last_failure_time |-> Some(0)],
     [state |-> "OPEN", failure_count |-> 5, last_failure_time |-> Some(0)]}

StartTimes == {30, 60}

\* no call of calculate_monthly_usage is stepped through on its own
UsageIdle ==
    /\ db = RowsOf(ProductTable[1])
    /\ heap = << >>
    /\ order_result = NoneRef
    /\ snapshot_result = NoneRef
    /\ hybrid_result = NoneRef
    /\ estimated_result = NoneRef
    /\ final_result = NoneRef
    /\ pc = "idle"

DriverInit ==
    /\ UsageIdle
    /\ products = ProductTable
    /\ session = << >>
    /\ driver_pc = "idle"
    /\ product_ids = << >>
    /\ idx = 1
    /\ results = << >>
    /\ log = << >>
    /\ consecutive_failures = 0
    /\ db_circuit_breaker \in BreakerStates
    /\ clock \in StartTimes
    /\ NoCall
    /\ ServicesIdle

DriverNext ==
    \/ StartBatch
    \/ ProcessBatchProduct
    \/ ReturnBatch
    \/ StartBackground
    \/ AbortBackground
    \/ ProcessBackgroundProduct
    \/ ReturnBackground

SpecBatch == DriverInit /\ [][DriverNext]_vars

(***************************************************************************)
(* Properties of the batch drivers                                         *)
(***************************************************************************)
\* the events of the log that are about one product, in order
ProductEvents == SelectSeq(log, LAMBDA e : e.product_id # NoProduct)

BatchReturned ==
    /\ driver_pc = "returned"
    /\ log[1].event = "usage_calculation_batch_started"

BackgroundRan ==
    /\ log # << >>
    /\ log[1].event = "client_recalculation_started"

\* C9: when calculate_usage_batch returns, every id of the request has been
\* attempted - one event per id, in request order, whatever exceptions were
\* raised on the way - and the response lists exactly the ids whose
\* processing ended with usage_calculated (found, no exception), in request
\* order.
C9_BatchNeverAborted ==
    BatchReturned =>
        /\ Len(ProductEvents) = Len(product_ids)
        /\ \A k \in 1..Len(product_ids) :
              /\ ProductEvents[k].product_id = product_ids[k]
              /\ ProductEvents[k].event = "usage_calculated"
                    => product_ids[k] \in DOMAIN products
              /\ ProductEvents[k].event = "product_not_found"
                    => product_ids[k] \notin DOMAIN products
        /\ [k \in 1..Len(results) |-> results[k].product_id]
              = [k \in 1..Len(results) |->
                    SelectSeq(ProductEvents,
                        LAMBDA e : e.event = "usage_calculated")[k].product_id]
        /\ Len(results)
              = Len(SelectSeq(ProductEvents,
                        LAMBDA e : e.event = "usage_calculated"))

\* a returned batch of three ids whose first raised, whose second was not
\* found and whose third was attempted all the same
C9_Witness ==
    /\ BatchReturned
    /\ Len(product_ids) = 3
    /\ Len(ProductEvents) = 3
    /\ ProductEvents[1].event = "usage_calculation_failed"
    /\ ProductEvents[2].event = "product_not_found"
    /\ ProductEvents[3].product_id = product_ids[3]
    /\ product_ids[3] # product_ids[1]

\* the loop of a driver is about to process product_ids[idx]
InLoop == driver_pc \in {"batch", "background"} /\ idx <= Len(product_ids)

FailureEvents == {"usage_calculation_failed", "product_calculation_failed"}

\* C10: an iteration of either driver's loop leaves the stored row of every
\* product other than the one it processes unchanged (earlier commits keep
\* their values, no other product is written), and an iteration that fails
\* leaves the row of its own product unchanged too.
C10_FailureAffectsOnlyThatProduct ==
    [][InLoop =>
         /\ \A id \in DOMAIN products :
               id # product_ids[idx] => products'[id] = products[id]
         /\ (log' # log /\ log'[Len(log')].event \in FailureEvents)
               => products' = products]_vars

\* the background driver committed a product, then failed at the commit of
\* the next one, then committed a third: the first and third rows carry
\* results, the second is as it was
C10_Witness ==
    /\ BackgroundRan
    /\ Len(ProductEvents) >= 3
    /\ ProductEvents[1].event = "product_updated"
    /\ ProductEvents[2].event = "product_calculation_failed"
    /\ ProductEvents[3].event = "product_updated"
    /\ products[ProductEvents[1].product_id].usage_last_calculated # Null
    /\ products[ProductEvents[2].product_id]
          = ProductTable[ProductEvents[2].product_id]
    /\ products[ProductEvents[3].product_id].usage_last_calculated # Null

\* the number of failure events at the end of a sequence of events
RECURSIVE TrailingFailures(_)
TrailingFailures(events) ==
    IF events = << >> THEN 0
    ELSE IF events[Len(events)].event \in FailureEvents
    THEN 1 + TrailingFailures(SubSeq(events, 1, Len(events) - 1))
    ELSE 0

Aborted ==
    \E k \in 1..Len(log) : log[k].event = "client_recalculation_aborted"

\* C11: in a run of recalculate_client_usage_background the counter is the
\* number of product calculations that failed in a row since the last
\* commit (a commit resets it to 0); the run is aborted only after 5
\* failures in a row and with products left, no product is calculated after
\* 5 failures in a row, a run that returns without abort has gone through
\* every product, and every product committed on the way stays updated.
C11_AbortAfterFiveInARow ==
    BackgroundRan =>
        /\ consecutive_failures = TrailingFailures(ProductEvents)
        /\ consecutive_failures <= MAX_CONSECUTIVE_FAILURES
        /\ \A k \in 1..Len(ProductEvents) :
              TrailingFailures(SubSeq(ProductEvents, 1, k - 1))
                  < MAX_CONSECUTIVE_FAILURES
        /\ Aborted => /\ TrailingFailures(ProductEvents)
                            = MAX_CONSECUTIVE_FAILURES
                      /\ Len(ProductEvents) < Len(product_ids)
        /\ (driver_pc = "returned" /\ ~Aborted)
              => Len(ProductEvents) = Len(product_ids)
        /\ \A k \in 1..Len(ProductEvents) :
              ProductEvents[k].event = "product_updated"
                  => products[ProductEvents[k].product_id]
                         .usage_last_calculated # Null

\* a run that failed once, committed a product, then failed five times in a
\* row and was aborted with a product left; the committed row is updated
C11_Witness ==
    /\ BackgroundRan
    /\ Aborted
    /\ driver_pc = "returned"
    /\ Len(ProductEvents) = 7
    /\ ProductEvents[1].event = "product_calculation_failed"
    /\ ProductEvents[2].event = "product_updated"
    /\ products[ProductEvents[2].product_id].usage_last_calculated # Null
    /\ Len(product_ids) > 7

(***************************************************************************)
(* Functions called on their own: utils/statistical.py                     *)
(***************************************************************************)
\* np.ceil, math.floor of a finite float
FCeil(x) == -((-x.n) \div x.d)

FFloor(x) == x.n \div x.d

\* x - y, x / y (y a non-zero finite float) on finite floats
FSub(x, y) == FAdd(x, FScale(y, -1, 1))

FDiv(x, y) == FMul(x, F(y.d, y.n))

\* max(0, x) on a finite float
FMax0(x) == IF x.n > 0 THEN x ELSE F(0, 1)

\* monthly_usage is a float, the other arguments are integers;
\* order_multiple is Optional
calculate_reorder_quantity(monthly_usage, lead_time_days, safety_stock_weeks, current_stock, pack_size, order_multiple) ==
    LET daily_usage == FDiv(monthly_usage, F(3044, 100))
        lead_time_usage == FScale(daily_usage, lead_time_days, 1)
        safety_stock == FScale(daily_usage, 7 * safety_stock_weeks, 1)
        reorder_point == FAdd(lead_time_usage, safety_stock)
        suggested_qty == FMax0(FSub(reorder_point, F(current_stock, 1)))
        \* np.ceil(x / pack_size) if pack_size > 0 else x
        in_packs(x) == IF pack_size > 0
                       THEN F(FCeil(FScale(x, 1, pack_size)), 1)
                       ELSE x
        rounded_packs == in_packs(suggested_qty)
        suggested_packs ==
            IF Truthy(order_multiple) /\ order_multiple[1] > 0
            THEN F(FCeil(FScale(rounded_packs, 1, order_multiple[1]))
                       * order_multiple[1], 1)
            ELSE rounded_packs
    IN  [suggested_quantity_packs |-> FTrunc(suggested_packs),
         suggested_quantity_units |->
             FTrunc(FScale(suggested_packs, pack_size, 1)),
         reorder_point_packs |-> FTrunc(in_packs(reorder_point)),
         safety_stock_packs |-> FTrunc(in_packs(safety_stock)),
         lead_time_demand_packs |-> FTrunc(in_packs(lead_time_usage))]

ReorderInputs ==
    [monthly_usage : {F(-50, 1), F(0, 1), F(3044, 100), F(100, 1)},
     lead_time_days : {0, 7, 14},
     safety_stock_weeks : {0, 2},
     current_stock : {0, 10, 500},
     pack_size : {-1, 0, 1, 10},
     order_multiple : {Null, Some(0), Some(4)}]

Call_calculate_reorder_quantity ==
    /\ call.op = "none"
    /\ \E args \in ReorderInputs :
        /\ call' = [op |-> "calculate_reorder_quantity", args |-> args]
        /\ ret' = calculate_reorder_quantity(args.monthly_usage,
                      args.lead_time_days, args.safety_stock_weeks,
                      args.current_stock, args.pack_size,
                      args.order_multiple)
    /\ UNCHANGED << usageVars, driverVars, serviceVars >>

\* the quantity the order has to cover: max(0, reorder_point - current_stock)
ReorderNeed(args) ==
    LET daily == FDiv(args.monthly_usage, F(3044, 100))
        reorder_point ==
            FAdd(FScale(daily, args.lead_time_days, 1),
                 FScale(daily, 7 * args.safety_stock_weeks, 1))
    IN  FMax0(FSub(reorder_point, F(args.current_stock, 1)))

\* C12: for all inputs the units suggested by calculate_reorder_quantity
\* cover max(0, reorder_point - current_stock), the packs suggested cover
\* them too (rounded up, never down), and with an order_multiple the packs
\* are a multiple of it.
C12_NeverUnderOrders ==
    call.op = "calculate_reorder_quantity" =>
        /\ ~FLess(F(ret.suggested_quantity_units, 1), ReorderNeed(call.args))
        /\ ~FLess(F(ret.suggested_quantity_packs * call.args.pack_size, 1),
                  ReorderNeed(call.args))
        /\ (call.args.order_multiple # Null
              /\ call.args.order_multiple[1] > 0)
              => ret.suggested_quantity_packs
                     % call.args.order_multiple[1] = 0

\* weeks of supply: None, NaN, and values around the thresholds
WeeksInputs ==
    {Null, Some(NaN), Some(Inf)} \cup
    {Some(F(h, 100)) : h \in {-100, 0, 199, 200, 201, 399, 400, 401,
                              799, 800, 801, 5000}}

Call_classify_stock_status ==
    /\ call.op = "none"
    /\ \E weeks_remaining \in WeeksInputs :
        /\ call' = [op |-> "classify_stock_status",
                    args |-> [weeks_remaining |-> weeks_remaining]]
        /\ ret' = classify_stock_status(weeks_remaining)
    /\ UNCHANGED << usageVars, driverVars, serviceVars >>

\* C13: classify_stock_status returns 'unknown' for None, 'critical' for
\* w <= 2, 'low' for 2 < w <= 4, 'watch' for 4 < w <= 8, 'healthy' for
\* w > 8, and one of these five statuses for every input.
C13_StockStatusTiers ==
    call.op = "classify_stock_status" =>
        LET weeks == call.args.weeks_remaining
            w == weeks[1]
            Le(x, b) == x.k = "num" /\ x.n <= b * x.d
            Gt(x, b) == x.k = "inf" \/ (x.k = "num" /\ x.n > b * x.d)
        IN  /\ ret \in {"unknown", "critical", "low", "watch", "healthy"}
            /\ weeks = Null <=> ret = "unknown"
            /\ weeks # Null =>
                  /\ Le(w, 2) => ret = "critical"
                  /\ (Gt(w, 2) /\ Le(w, 4)) => ret = "low"
                  /\ (Gt(w, 4) /\ Le(w, 8)) => ret = "watch"
                  /\ Gt(w, 8) => ret = "healthy"

\* exactly 4 weeks of supply were classified 'low'
C13_Witness ==
    /\ call.op = "classify_stock_status"
    /\ call.args.weeks_remaining = Some(F(4, 1))
    /\ ret = "low"

\* a/b <= c/d for naturals a, c and positive b, d, by their continued
\* fractions (no product is formed)
RECURSIVE RatLeq(_, _, _, _)
RatLeq(a, b, c, d) ==
    IF a \div b # c \div d THEN a \div b < c \div d
    ELSE IF a % b = 0 THEN TRUE
    ELSE IF c % d = 0 THEN FALSE
    ELSE RatLeq(d, c % d, b, a % b)

\* round(1 / (1 + sqrt(r)), 2) in hundredths, r a finite float >= 0:
\* the largest c with 1 / (1 + sqrt(r)) >= (2c - 1) / 200
confidence_hundredths(r) ==
    CHOOSE c \in 0..100 :
        /\ c = 0 \/ RatLeq(r.n, r.d, (201 - 2 * c) * (201 - 2 * c),
                           (2 * c - 1) * (2 * c - 1))
        /\ c = 100 \/ ~RatLeq(r.n, r.d, (199 - 2 * c) * (199 - 2 * c),
                              (2 * c + 1) * (2 * c + 1))

\* the result of the early return of lines 266-272
no_prediction ==
    [predicted_date |-> Null,
     days_until_stockout |-> Null,
     confidence_score |-> Some(0),
     confidence_interval |-> Null]

\* predict_stockout_date that checks the usage rate only, so that exhausted
\* stock is a stockout today
predict_stockout_date_unchecked_stock(current_stock, daily_usage_rate, usage_variance) ==
    IF daily_usage_rate.n <= 0 THEN no_prediction
    ELSE LET days == FDiv(F(current_stock, 1), daily_usage_rate)
         IN  [predicted_date |-> Some([days |-> days, margin_sq |-> F(0, 1)]),
              days_until_stockout |-> Some(FTrunc(days)),
              confidence_score |-> Some(50),
              confidence_interval |->
                  Some([earliest |-> [days |-> days, margin_sq |-> F(0, 1)],
                        latest |-> [days |-> days, margin_sq |-> F(0, 1)]])]

\* current_stock is an integer, daily_usage_rate a finite float,
\* usage_variance a float or None.  A date is the number of days from now
\* to the predicted date together with the square of the margin that is
\* taken off (earliest) or added (latest); confidence_score is in
\* hundredths.
predict_stockout_date(current_stock, daily_usage_rate, usage_variance) ==
    IF daily_usage_rate.n <= 0 \/ current_stock <= 0 THEN no_prediction
    ELSE IF usage_variance = Null THEN [raised |-> "TypeError"]
    ELSE
    LET days_until_stockout == FDiv(F(current_stock, 1), daily_usage_rate)
        predicted_date == [days |-> days_until_stockout,
                           margin_sq |-> F(0, 1)]
        variance == usage_variance[1]
        with_margin == variance.k = "inf"
                       \/ (variance.k = "num" /\ variance.n > 0)
        \* margin_days squared: 1.96^2 * variance / rate^2 * days
        margin_sq ==
            FMul(FMul(FMul(F(2401, 625), variance),
                      FDiv(F(1, 1), FMul(daily_usage_rate, daily_usage_rate))),
                 days_until_stockout)
        \* (margin_days / days_until_stockout) squared
        ratio_sq ==
            FDiv(margin_sq, FMul(days_until_stockout, days_until_stockout))
    IN  [predicted_date |-> Some(predicted_date),
         days_until_stockout |-> Some(FTrunc(days_until_stockout)),
         confidence_score |->
             Some(IF with_margin THEN confidence_hundredths(ratio_sq)
                  ELSE 50),
         confidence_interval |->
             Some(IF with_margin
                  THEN [earliest |-> [days |-> days_until_stockout,
                                      margin_sq |-> margin_sq],
                        latest |-> [days |-> days_until_stockout,
                                    margin_sq |-> margin_sq]]
                  ELSE [earliest |-> predicted_date,
                        latest |-> predicted_date])]

StockoutInputs ==
    [current_stock : {-5, 0, 10, 100},
     daily_usage_rate : {F(-1, 1), F(0, 1), F(1, 2), F(5, 1)},
     usage_variance : {Null, Some(NaN), Some(F(0, 1)), Some(F(1, 4)),
                       Some(F(4, 1))}]

Call_predict_stockout_date ==
    /\ call.op = "none"
    /\ \E args \in StockoutInputs :
        /\ call' = [op |-> "predict_stockout_date", args |-> args]
        /\ ret' = predict_stockout_date(args.current_stock,
                      args.daily_usage_rate, args.usage_variance)
    /\ UNCHANGED << usageVars, driverVars, serviceVars >>

CannotPredict ==
    /\ call.op = "predict_stockout_date"
    /\ call.args.current_stock <= 0 \/ call.args.daily_usage_rate.n <= 0

\* C14 as stated: with current_stock <= 0 or daily_usage_rate <= 0 all four
\* fields of the result of predict_stockout_date are None.
C14_AllFieldsNone ==
    CannotPredict =>
        /\ ret.predicted_date = Null
        /\ ret.days_until_stockout = Null
        /\ ret.confidence_score = Null
        /\ ret.confidence_interval = Null

\* C14 amended: with current_stock <= 0 or daily_usage_rate <= 0 the result
\* of predict_stockout_date has predicted_date, days_until_stockout and
\* confidence_interval None and confidence_score 0.0: exhausted stock is
\* 'cannot predict', never a stockout today.
C14_NoPredictionZeroConfidence ==
    CannotPredict =>
        /\ ret.predicted_date = Null
        /\ ret.days_until_stockout = Null
        /\ ret.confidence_score = Some(0)
        /\ ret.confidence_interval = Null

\* the call of the scenario: no stock left, 5 units used a day
C14_Witness ==
    /\ call.op = "predict_stockout_date"
    /\ call.args.current_stock = 0
    /\ call.args.daily_usage_rate = F(5, 1)
    /\ ret.predicted_date = Null
    /\ ret.confidence_score = Some(0)

(***************************************************************************)
(* The forecasting service: apps/ml-analytics/main.py                       *)
(***************************************************************************)
\* the selection with the intermittency test placed after the volume tests
select_forecasting_algorithm_volume_first(data_points, zeros_percentage, has_yearly_data) ==
    IF data_points < 5
    THEN [algorithm |-> "naive", reason |-> "Insufficient data (<5 points) - using naive forecast"]
    ELSE IF data_points < 30
    THEN [algorithm |-> "ses", reason |-> "Limited data (5-29 points) - using Simple Exponential Smoothing"]
    ELSE IF data_points < 100
    THEN [algorithm |-> "ets", reason |-> "Moderate data (30-99 points) - using AutoETS"]
    ELSE IF FLess(F(50, 1), zeros_percentage)
    THEN [algorithm |-> "croston", reason |-> "Intermittent demand ({zeros_percentage:.0f}% zeros) - using Croston SBA"]
    ELSE IF has_yearly_data
    THEN [algorithm |-> "prophet", reason |-> "Rich data (100+ points, yearly) - using Prophet with yearly seasonality"]
    ELSE [algorithm |-> "prophet", reason |-> "Sufficient data (100+ points) - using Prophet"]

\* the tuple (algorithm_name, reason); the reason of croston carries the
\* percentage through a format that no caller reads back
select_forecasting_algorithm(data_points, zeros_percentage, has_yearly_data) ==
    IF data_points < 5
    THEN [algorithm |-> "naive", reason |-> "Insufficient data (<5 points) - using naive forecast"]
    ELSE IF data_points < 30
    THEN [algorithm |-> "ses", reason |-> "Limited data (5-29 points) - using Simple Exponential Smoothing"]
    ELSE IF FLess(F(50, 1), zeros_percentage)
    THEN [algorithm |-> "croston", reason |-> "Intermittent demand ({zeros_percentage:.0f}% zeros) - using Croston SBA"]
    ELSE IF data_points < 100
    THEN [algorithm |-> "ets", reason |-> "Moderate data (30-99 points) - using AutoETS"]
    ELSE IF has_yearly_data
    THEN [algorithm |-> "prophet", reason |-> "Rich data (100+ points, yearly) - using Prophet with yearly seasonality"]
    ELSE [algorithm |-> "prophet", reason |-> "Sufficient data (100+ points) - using Prophet"]

\* the observation counts on both sides of every threshold, and percentages
\* of zero-demand days on both sides of 50, NaN included
SelectionInputs ==
    [data_points : {0, 4, 5, 29, 30, 99, 100, 364, 365},
     zeros_percentage : {F(0, 1), F(50, 1), F(101, 2), F(100, 1), NaN},
     has_yearly_data : BOOLEAN]

Call_select_forecasting_algorithm ==
    /\ call.op = "none"
    /\ \E args \in SelectionInputs :
        /\ call' = [op |-> "select_forecasting_algorithm", args |-> args]
        /\ ret' = select_forecasting_algorithm(args.data_points, args.zeros_percentage, args.has_yearly_data)
    /\ UNCHANGED << usageVars, driverVars, serviceVars >>

\* most days a request asks the forecast for
MaxHorizon == 31

\* the rows the query returns, one per date in date order, written as runs of
\* days with the same daily sum y (Null is a NULL sum, NaN in the frame)
Run(y, days) == [y |-> y, days |-> days]

RECURSIVE frame_len(_)
\* len(df)
frame_len(rows) ==
    IF rows = << >> THEN 0 ELSE Head(rows).days + frame_len(Tail(rows))

RECURSIVE count_rows(_, _)
\* the rows whose y is the given one: (df['y'] == 0).sum(), df['y'].isna().sum()
count_rows(rows, y) ==
    IF rows = << >> THEN 0
    ELSE (IF Head(rows).y = y THEN Head(rows).days ELSE 0) + count_rows(Tail(rows), y)

\* df['y'].fillna(0).std() == 0: the sample deviation of one row is NaN
zero_variance(rows) ==
    /\ frame_len(rows) >= 2
    /\ Cardinality({IF rows[i].y = Null THEN F(0, 1) ELSE rows[i].y[1] : i \in 1..Len(rows)}) = 1

HTTPException(status_code, detail, breaker) ==
    [status_code |-> status_code, detail |-> detail, breaker |-> breaker]

\* datetime.isoformat(), one string per day
isoformat(day) == [iso |-> day]

\* Series.clip(lower=0) of one value
clip_lower_0(x) == IF FLess(x, F(0, 1)) THEN F(0, 1) ELSE x

ForecastResponse(predictions, model_metrics, seasonality_detected, prophet, breaker) ==
    [status_code |-> 200,
     predictions |-> predictions,
     model_metrics |-> model_metrics,
     seasonality_detected |-> seasonality_detected,
     prophet |-> prophet,
     breaker |-> breaker]

\* a minimum of 30 rows, as for the Prophet model alone
insufficient_data_below_30(data_points) == data_points < 30

\* the minimum data check: 5 points are enough for the simple models
insufficient_data(data_points) == data_points < 5

\* the endpoint's outcome and db_circuit_breaker after it.  lib is what the
\* code does not decide: whether the query raises, whether statsforecast is
\* installed and whether it raises, whether Prophet raises, and the forecast
\* and errors the library computes.  "prophet" records the arguments of the
\* Prophet(...) construction, Null when none is made.
forecast_demand(horizon_days, rows, breaker, now, lib) ==
    LET gate == can_execute(breaker, now)
        data_points == frame_len(rows)
        zeros_count == count_rows(rows, Some(F(0, 1)))
        zeros_percentage == IF data_points > 0 THEN F(zeros_count * 100, data_points) ELSE F(0, 1)
        has_yearly_data == data_points >= 365
        selected == select_forecasting_algorithm(data_points, zeros_percentage, has_yearly_data)
        selection_reason == selected.reason
        nan_count == count_rows(rows, Null)
        nan_percentage == F(nan_count * 100, data_points)
        algorithm == IF zero_variance(rows) /\ selected.algorithm # "naive" THEN "naive"
                     ELSE selected.algorithm
        sf_predictions ==
            [i \in 1..horizon_days |->
                [ds |-> isoformat(i),
                 yhat |-> clip_lower_0(lib.forecast[i].yhat),
                 yhat_lower |-> clip_lower_0(FScale(lib.forecast[i].yhat, 8, 10)),
                 yhat_upper |-> clip_lower_0(FScale(lib.forecast[i].yhat, 12, 10))]]
        predictions_list ==
            [i \in 1..horizon_days |->
                [ds |-> isoformat(i),
                 yhat |-> clip_lower_0(lib.forecast[i].yhat),
                 yhat_lower |-> clip_lower_0(lib.forecast[i].yhat_lower),
                 yhat_upper |-> clip_lower_0(lib.forecast[i].yhat_upper)]]
        model == [daily_seasonality |-> FALSE,
                  weekly_seasonality |-> TRUE,
                  yearly_seasonality |-> has_yearly_data]
    IN  IF ~gate.allowed
        THEN HTTPException(503, "Service temporarily unavailable due to database issues. Please try again later.", gate.breaker)
        ELSE IF lib.query = "raises"
        THEN HTTPException(500, "Forecasting failed", record_failure(gate.breaker, now))
        ELSE IF rows = << >>
        THEN HTTPException(404, "No transaction data found", gate.breaker)
        ELSE IF insufficient_data(data_points)
        THEN HTTPException(400, "Insufficient data for forecasting (found {data_points} days, minimum 5 required)", gate.breaker)
        ELSE IF FLess(F(20, 1), nan_percentage)
        THEN HTTPException(400, "Data quality too low", gate.breaker)
        ELSE IF algorithm # "prophet" /\ lib.statsforecast = "ok"
        THEN ForecastResponse(
                sf_predictions,
                [mape |-> F(0, 1), rmse |-> F(0, 1), training_samples |-> data_points,
                 algorithm |-> algorithm, selection_reason |-> selection_reason],
                algorithm = "ets", Null, record_success(gate.breaker))
        ELSE IF lib.prophet = "raises"
        THEN HTTPException(500, "Forecasting failed", record_failure(gate.breaker, now))
        ELSE ForecastResponse(
                predictions_list,
                [mape |-> round_hundredths(lib.mape), rmse |-> round_hundredths(lib.rmse),
                 algorithm |-> "prophet", selection_reason |-> selection_reason,
                 training_samples |-> data_points],
                model.yearly_seasonality \/ model.weekly_seasonality \/ model.daily_seasonality,
                Some(model), record_success(gate.breaker))

\* what the library forecasts for the days after the data: a alternating with
\* b, with an interval of 2 on each side
LibraryForecast(a, b) ==
    [i \in 1..MaxHorizon |->
        LET yhat == IF i % 2 = 1 THEN a ELSE b
        IN  [yhat |-> yhat,
             yhat_lower |-> FAdd(yhat, F(-2, 1)),
             yhat_upper |-> FAdd(yhat, F(2, 1))]]

Libraries ==
    [query : {"ok", "raises"},
     statsforecast : {"absent", "raises", "ok"},
     prophet : {"ok", "raises"},
     forecast : {LibraryForecast(F(10, 1), F(10, 1)),
                 LibraryForecast(F(0, 1), F(0, 1)),
                 LibraryForecast(F(-5, 1), F(15, 2))},
     mape : {F(0, 1), F(1234, 100), F(250, 1)},
     rmse : {F(3, 1)}]

\* a year of daily rows at most; the counts sit on both sides of 5, 30, 100
\* and 365, the zero-demand days on both sides of half, the NULL sums on
\* both sides of a fifth
Frames ==
    {<< >>,
     << Run(Some(F(10, 1)), 1) >>,
     << Run(Some(F(10, 1)), 2), Run(Some(F(12, 1)), 2) >>,
     << Run(Some(F(10, 1)), 3), Run(Some(F(12, 1)), 2) >>,
     << Run(Some(F(10, 1)), 20) >>,
     << Run(Some(F(10, 1)), 10), Run(Some(F(12, 1)), 10) >>,
     << Run(Null, 3), Run(Some(F(10, 1)), 7) >>,
     << Run(Null, 2), Run(Some(F(10, 1)), 8) >>,
     << Run(Some(F(0, 1)), 16), Run(Some(F(10, 1)), 14) >>,
     << Run(Some(F(0, 1)), 15), Run(Some(F(10, 1)), 15) >>,
     << Run(Some(F(0, 1)), 30) >>,
     << Run(Some(F(10, 1)), 50), Run(Some(F(12, 1)), 50) >>,
     << Run(Some(F(10, 1)), 200), Run(Some(F(12, 1)), 164) >>,
     << Run(Some(F(10, 1)), 200), Run(Some(F(12, 1)), 165) >>}

ForecastInputs ==
    [horizon_days : {2, MaxHorizon},
     rows : Frames,
     breaker : BreakerStates,
     now : StartTimes,
     lib : Libraries]

Call_forecast_demand ==
    /\ call.op = "none"
    /\ \E args \in ForecastInputs :
        /\ call' = [op |-> "forecast_demand", args |-> args]
        /\ ret' = forecast_demand(args.horizon_days, args.rows, args.breaker, args.now, args.lib)
    /\ UNCHANGED << usageVars, driverVars, serviceVars >>

ValidationMessage(level, message) == [level |-> level, message |-> message]

\* the message each rule appends (the numbers the code formats into the
\* texts left as their placeholders)
RuleMessage(rule) ==
    CASE rule = 1 -> ValidationMessage("error", "Monthly usage cannot be negative")
      [] rule = 2 -> ValidationMessage("warning", "Monthly usage is >10x current stock - may indicate data issue")
      [] rule = 3 -> ValidationMessage("warning", "Low confidence - recommend reviewing data or increasing collection period")
      [] rule = 4 -> ValidationMessage("warning", "Detected outlier months - usage may be irregular or seasonal")
      [] rule = 5 -> ValidationMessage("warning", "Notification point implies weeks of usage - verify notification point is correct")
      [] rule = 6 -> ValidationMessage("info", "Zero usage detected for active product - may be newly added or dormant")
      [] rule = 7 -> ValidationMessage("info", "High usage variability - consider seasonality or irregular ordering patterns")
      [] rule = 8 -> ValidationMessage("warning", "Last data is days old - calculation may not reflect current patterns")
      [] rule = 9 -> ValidationMessage("info", "Event items typically have one-time usage - monthly usage may not be meaningful")
      [] rule = 10 -> ValidationMessage("info", "Completed items should not have ongoing usage - verify product status")

\* the condition of each if statement.  result holds the floats
\* monthly_usage_units, monthly_usage_packs and cv, product the nullable
\* columns current_stock_units and notification_point
RuleFires(rule, result, product) ==
    LET units == result.monthly_usage_units
        packs == result.monthly_usage_packs
        zero == F(0, 1)
    IN  CASE rule = 1 -> FLess(units, zero)
          [] rule = 2 ->
                /\ Truthy(product.current_stock_units)
                /\ product.current_stock_units[1] > 0
                /\ FLess(F(product.current_stock_units[1] * 10, 1), units)
          [] rule = 3 -> result.confidence_level = "low"
          [] rule = 4 -> result.outliers_detected > 2
          [] rule = 5 ->
                /\ Truthy(product.notification_point)
                /\ FLess(zero, packs)
                /\ LET implied_weeks == FScale(FDiv(F(product.notification_point[1], 1), packs), 433, 100)
                   IN  FLess(implied_weeks, F(1, 1)) \/ FLess(F(26, 1), implied_weeks)
          [] rule = 6 -> units = zero /\ product.is_active
          [] rule = 7 -> FLess(F(1, 1), result.cv)
          [] rule = 8 -> result.days_since_last_data > 90
          [] rule = 9 -> product.item_type = "event" /\ FLess(zero, units)
          [] rule = 10 -> product.item_type = "completed" /\ FLess(zero, units)

RECURSIVE run_rules(_, _, _)
\* the if statements from the given one on, each appending to messages
run_rules(rule, result, product) ==
    IF rule > 10 THEN << >>
    ELSE (IF RuleFires(rule, result, product) THEN << RuleMessage(rule) >> ELSE << >>)
         \o run_rules(rule + 1, result, product)

\* the validator returning as soon as it has reported an error
validate_usage_result_stop_at_error(result, product) ==
    IF RuleFires(1, result, product) THEN << RuleMessage(1) >>
    ELSE run_rules(2, result, product)

validate_usage_result(result, product) == run_rules(1, result, product)

ValidatorInputs ==
    [result : [monthly_usage_units : {F(-3, 1), F(0, 1), F(5, 1), F(100, 1), F(101, 1), NaN},
               monthly_usage_packs : {F(0, 1), F(1, 1), F(30, 1)},
               confidence_level : {"low", "high"},
               outliers_detected : {2, 3},
               cv : {F(1, 1), F(3, 2)},
               days_since_last_data : {90, 91}],
     product : [current_stock_units : {Null, Some(0), Some(10), Some(-5)},
                notification_point : {Null, Some(6)},
                is_active : BOOLEAN,
                item_type : {"evergreen", "event", "completed"}]]

Call_validate_usage_result ==
    /\ call.op = "none"
    /\ \E args \in ValidatorInputs :
        /\ call' = [op |-> "validate_usage_result", args |-> args]
        /\ ret' = validate_usage_result(args.result, args.product)
    /\ UNCHANGED << usageVars, driverVars, serviceVars >>

\* the findings the rules of the validator describe, each decided on its
\* own; stock_rule is the condition of the stock rule
ApplicableFindings(result, product, stock_rule) ==
    LET units == result.monthly_usage_units
        packs == result.monthly_usage_packs
        notification_point == product.notification_point
        weeks_below_1 == notification_point[1] * 433 * packs.d < 100 * packs.n
        weeks_above_26 == notification_point[1] * 433 * packs.d > 2600 * packs.n
    IN  {m \in {RuleMessage(rule) : rule \in 1..10} :
            \/ m = RuleMessage(1) /\ IsNum(units) /\ units.n < 0
            \/ m = RuleMessage(2) /\ stock_rule
            \/ m = RuleMessage(3) /\ result.confidence_level = "low"
            \/ m = RuleMessage(4) /\ result.outliers_detected >= 3
            \/ m = RuleMessage(5) /\ notification_point \notin {Null, Some(0)}
                                  /\ packs.n > 0 /\ (weeks_below_1 \/ weeks_above_26)
            \/ m = RuleMessage(6) /\ IsNum(units) /\ units.n = 0 /\ product.is_active
            \/ m = RuleMessage(7) /\ result.cv.n > result.cv.d
            \/ m = RuleMessage(8) /\ result.days_since_last_data >= 91
            \/ m = RuleMessage(9) /\ product.item_type = "event" /\ IsNum(units) /\ units.n > 0
            \/ m = RuleMessage(10) /\ product.item_type = "completed" /\ IsNum(units) /\ units.n > 0}

Messages == {ret[i] : i \in 1..Len(ret)}

\* C16 as stated: validate_usage_result returns exactly the messages of the
\* rules that apply, one each, negative usage being an error and monthly
\* usage above ten times the current stock a warning
C16_ExactlyApplicableRules ==
    call.op = "validate_usage_result" =>
        LET stock == call.args.product.current_stock_units
            units == call.args.result.monthly_usage_units
        IN  /\ Messages = ApplicableFindings(call.args.result, call.args.product,
                            stock # Null /\ IsNum(units) /\ units.n > 10 * stock[1] * units.d)
            /\ Len(ret) = Cardinality(Messages)

\* C16: validate_usage_result returns exactly the messages of the rules that
\* apply, one each and whatever other rules applied, negative usage being an
\* error and monthly usage above ten times a positive current stock a warning
C16_ExactlyApplicableRulesPositiveStock ==
    call.op = "validate_usage_result" =>
        LET stock == call.args.product.current_stock_units
            units == call.args.result.monthly_usage_units
        IN  /\ Messages = ApplicableFindings(call.args.result, call.args.product,
                            /\ stock # Null
                            /\ stock[1] > 0
                            /\ IsNum(units)
                            /\ units.n > 10 * stock[1] * units.d)
            /\ Len(ret) = Cardinality(Messages)

\* negative usage of a stale, low-confidence estimate: the error and both
\* warnings are returned together
C16_Witness ==
    /\ call.op = "validate_usage_result"
    /\ call.args.result.monthly_usage_units = F(-3, 1)
    /\ call.args.result.confidence_level = "low"
    /\ call.args.result.days_since_last_data = 91
    /\ {RuleMessage(1), RuleMessage(3), RuleMessage(8)} \subseteq Messages

(***************************************************************************)
(* services/financial_calculator.py                                        *)
(***************************************************************************)
\* FinancialCalculator.DEFAULT_HOLDING_COST_RATE, 0.25
DEFAULT_HOLDING_COST_RATE == F(25, 100)

\* unit_cost and holding_cost_rate are Optional floats, stock_units an
\* integer; a float is falsy exactly when it is 0.0
calculate_holding_costs(stock_units, unit_cost, holding_cost_rate) ==
    IF unit_cost = Null \/ ~FLess(F(0, 1), unit_cost[1])
    THEN [daily |-> Null, monthly |-> Null, annual |-> Null]
    ELSE LET rate == IF holding_cost_rate # Null /\ holding_cost_rate[1] # F(0, 1)
                     THEN holding_cost_rate[1]
                     ELSE DEFAULT_HOLDING_COST_RATE
             inventory_value == FScale(unit_cost[1], stock_units, 1)
             annual_cost == FMul(inventory_value, rate)
         IN  [daily |-> Some(round_hundredths(FScale(annual_cost, 1, 365))),
              monthly |-> Some(round_hundredths(FScale(annual_cost, 1, 12))),
              annual |-> Some(round_hundredths(annual_cost))]

HoldingCostInputs ==
    [stock_units : {0, 100, 365},
     unit_cost : {Null, Some(F(-1, 1)), Some(F(0, 1)), Some(F(1, 100)), Some(F(10, 1))},
     holding_cost_rate : {Null, Some(F(0, 1)), Some(F(1, 10)), Some(F(25, 100)), Some(F(1, 1))}]

Call_calculate_holding_costs ==
    /\ call.op = "none"
    /\ \E args \in HoldingCostInputs :
        /\ call' = [op |-> "calculate_holding_costs", args |-> args]
        /\ ret' = calculate_holding_costs(args.stock_units, args.unit_cost, args.holding_cost_rate)
    /\ UNCHANGED << usageVars, driverVars, serviceVars >>

\* C17: calculate_holding_costs charges the supplied holding_cost_rate
\* whenever one is supplied, 0 included, and 25% a year only when none is;
\* daily, monthly and annual are all None exactly when unit_cost is missing
\* or not positive
C17_SuppliedRateUsed ==
    call.op = "calculate_holding_costs" =>
        LET unit_cost == call.args.unit_cost
            supplied == call.args.holding_cost_rate
            no_cost == unit_cost = Null \/ unit_cost[1].n <= 0
            rate == IF supplied # Null THEN supplied[1] ELSE F(25, 100)
            annual == FMul(FScale(unit_cost[1], call.args.stock_units, 1), rate)
        IN  /\ no_cost <=> ret.annual = Null
            /\ no_cost <=> (ret.daily = Null /\ ret.monthly = Null /\ ret.annual = Null)
            /\ ~no_cost => ret.annual = Some(round_hundredths(annual))

\* the call got as far as the minimum data check: the breaker let it
\* through and the query returned rows
ReachedDataCheck ==
    /\ call.op = "forecast_demand"
    /\ ret.status_code \notin {503, 404}
    /\ call.args.lib.query = "ok"

RejectedAsInsufficient ==
    /\ ret.status_code = 400
    /\ ret.detail = "Insufficient data for forecasting (found {data_points} days, minimum 5 required)"

round_thousandths(x) == F((2000 * x.n + x.d) \div (2 * x.d), 1000)

\* the stock is used up without any demand left over
stocked_out_strictly(current_stock) == FLess(current_stock, F(0, 1))

\* current_stock <= 0
stocked_out(current_stock) == ~FLess(F(0, 1), current_stock)

RECURSIVE stockout_walk(_, _, _)
\* the loop over the predictions from the i-th one on (i counted from 1, so
\* that it is the code's i + 1): the entries appended and where it broke off
stockout_walk(predictions, i, current_stock) ==
    IF i > Len(predictions)
    THEN [daily_forecasts |-> << >>, stockout_date |-> Null, days_until_stockout |-> Null]
    ELSE LET pred == predictions[i]
             daily_usage == FMax0(pred.yhat)
             remaining == FSub(current_stock, daily_usage)
             entry == [date |-> pred.ds,
                       predicted_usage |-> round_hundredths(daily_usage),
                       remaining_stock |-> round_hundredths(FMax0(remaining))]
         IN  IF stocked_out(remaining)
             THEN [daily_forecasts |-> << entry >>,
                   stockout_date |-> Some(pred.ds),
                   days_until_stockout |-> Some(i)]
             ELSE LET rest == stockout_walk(predictions, i + 1, remaining)
                  IN  [rest EXCEPT !.daily_forecasts = << entry >> \o @]

StockoutPredictionResponse(predicted_stockout_date, days_until_stockout, confidence, daily_usage_forecast, breaker) ==
    [status_code |-> 200,
     predicted_stockout_date |-> predicted_stockout_date,
     days_until_stockout |-> days_until_stockout,
     confidence |-> confidence,
     daily_usage_forecast |-> daily_usage_forecast,
     breaker |-> breaker]

\* the endpoint's outcome and db_circuit_breaker after it; current_stock is
\* an integer, lib as for forecast_demand, which it calls
predict_stockout(current_stock, horizon_days, rows, breaker, now, lib) ==
    LET gate == can_execute(breaker, now)
        forecast_resp == forecast_demand(horizon_days, rows, gate.breaker, now, lib)
        walk == stockout_walk(forecast_resp.predictions, 1, F(current_stock, 1))
        mape == forecast_resp.model_metrics.mape
        below_1 == FSub(F(1, 1), FScale(mape, 1, 100))
        capped == IF FLess(below_1, F(1, 1)) THEN below_1 ELSE F(1, 1)
        confidence == IF FLess(F(0, 1), capped) THEN capped ELSE F(0, 1)
    IN  IF ~gate.allowed
        THEN HTTPException(503, "Service temporarily unavailable due to database issues. Please try again later.", gate.breaker)
        ELSE IF forecast_resp.status_code # 200 THEN forecast_resp
        ELSE StockoutPredictionResponse(
                walk.stockout_date,
                walk.days_until_stockout,
                round_thousandths(confidence),
                SubSeq(walk.daily_forecasts, 1, Min2(30, Len(walk.daily_forecasts))),
                forecast_resp.breaker)

\* stocks the forecasts reach exactly, overshoot and never reach; the frames
\* and libraries are those of forecast_demand that differ in what the loop
\* is given
StockoutRequests ==
    [current_stock : {0, 20, 25, 500},
     horizon_days : {2, MaxHorizon},
     rows : {<< >>,
             << Run(Some(F(10, 1)), 20) >>,
             << Run(Some(F(10, 1)), 10), Run(Some(F(12, 1)), 10) >>,
             << Run(Some(F(10, 1)), 200), Run(Some(F(12, 1)), 165) >>},
     breaker : BreakerStates,
     now : StartTimes,
     lib : {l \in Libraries : l.query = "ok" /\ l.statsforecast # "raises"}]

Call_predict_stockout ==
    /\ call.op = "none"
    /\ \E args \in StockoutRequests :
        /\ call' = [op |-> "predict_stockout", args |-> args]
        /\ ret' = predict_stockout(args.current_stock, args.horizon_days, args.rows, args.breaker, args.now, args.lib)
    /\ UNCHANGED << usageVars, driverVars, serviceVars >>

RECURSIVE CumulativeDemand(_, _)
\* the demand the library forecasts for the first k days, a negative
\* forecast counting as none
CumulativeDemand(forecast, k) ==
    IF k = 0 THEN F(0, 1)
    ELSE FAdd(CumulativeDemand(forecast, k - 1),
              IF forecast[k].yhat.n > 0 THEN forecast[k].yhat ELSE F(0, 1))

\* the days of the horizon by which the forecast demand has reached the stock
StockoutDays ==
    {k \in 1..call.args.horizon_days :
        ~FLess(CumulativeDemand(call.args.lib.forecast, k), F(call.args.current_stock, 1))}

\* C19: a prediction predict_stockout returns names as days_until_stockout
\* the first day by which the forecast demand, each day's clipped at 0, has
\* reached current_stock, with that day's date, and no date and no count when
\* the horizon holds no such day; its confidence lies in [0, 1], no
\* remaining_stock is negative and it lists at most 30 days
C19_FirstDayDemandReachesStock ==
    (call.op = "predict_stockout" /\ ret.status_code = 200) =>
        /\ \E days \in {StockoutDays} :
            /\ days = {} =>
                ret.predicted_stockout_date = Null /\ ret.days_until_stockout = Null
            /\ days # {} =>
                \E k \in days :
                    /\ \A j \in days : k <= j
                    /\ ret.days_until_stockout = Some(k)
                    /\ ret.predicted_stockout_date = Some(isoformat(k))
        /\ ret.confidence.n >= 0
        /\ ret.confidence.n <= ret.confidence.d
        /\ \A i \in 1..Len(ret.daily_usage_forecast) :
            ret.daily_usage_forecast[i].remaining_stock.n >= 0
        /\ Len(ret.daily_usage_forecast) <= 30

\* 20 units in stock and 10 forecast for every day: the stock is used up on
\* the second day exactly
C19_Witness ==
    /\ call.op = "predict_stockout"
    /\ call.args.current_stock = 20
    /\ call.args.lib.forecast = LibraryForecast(F(10, 1), F(10, 1))
    /\ ret.status_code = 200
    /\ ret.days_until_stockout = Some(2)
    /\ ret.daily_usage_forecast[2].remaining_stock = F(0, 1)

(***************************************************************************)
(* apps/python-importer/main.py: validate_file_path                         *)
(***************************************************************************)
\* A path string is written as whether it starts at the root and the names
\* between its separators.  The file system the paths are looked up in:
\* its directories, its regular files and its symbolic links with their
\* targets (absolute, and never forming a loop).
Directories ==
    {<< >>, << "tmp" >>, << "tmp", "sub" >>, << "tmpx" >>, << "etc" >>,
     << "home" >>, << "home", "u" >>, << "root" >>, << "root", "uploads" >>,
     << "srv" >>, << "srv", "apps" >>, << "srv", "apps", "uploads" >>}

RegularFiles ==
    {<< "tmp", "a.csv" >>, << "tmp", "a..csv" >>, << "tmp", "sub", "b.csv" >>,
     << "tmpx", "c.csv" >>, << "etc", "passwd" >>, << "home", "u", "secret.csv" >>,
     << "root", "uploads", "d.csv" >>, << "srv", "apps", "uploads", "e.csv" >>}

\* os.readlink: the target of a symbolic link, Null for anything else
readlink(path) ==
    CASE path = << "tmp", "link_out.csv" >> -> Some(<< "home", "u", "secret.csv" >>)
      [] path = << "tmp", "link_etc" >> -> Some(<< "etc", "passwd" >>)
      [] path = << "tmp", "link_in.csv" >> -> Some(<< "tmp", "sub", "b.csv" >>)
      [] path = << "tmp", "link_dir" >> -> Some(<< "home", "u" >>)
      [] path = << "home", "u", "link_tmp.csv" >> -> Some(<< "tmp", "a.csv" >>)
      [] path = << "home", "u", "tmplink" >> -> Some(<< "tmp" >>)
      [] OTHER -> Null

\* the working directory of the importer
Cwd == << "tmp" >>

RECURSIVE normpath(_, _)
\* os.path.normpath of an absolute path: "." and empty names dropped, ".."
\* taking back the name before it, without looking at the file system
normpath(done, rest) ==
    IF rest = << >> THEN done
    ELSE IF Head(rest) \in {".", ""} THEN normpath(done, Tail(rest))
    ELSE IF Head(rest) = ".."
    THEN normpath(IF done = << >> THEN done ELSE SubSeq(done, 1, Len(done) - 1), Tail(rest))
    ELSE normpath(Append(done, Head(rest)), Tail(rest))

\* os.path.abspath
abspath(file_path) ==
    normpath(<< >>, IF file_path.absolute THEN file_path.names ELSE Cwd \o file_path.names)

RECURSIVE realpath(_, _)
\* os.path.realpath of an absolute path: the names joined one by one, a
\* symbolic link replaced by its target
realpath(done, rest) ==
    IF rest = << >> THEN done
    ELSE IF Head(rest) \in {".", ""} THEN realpath(done, Tail(rest))
    ELSE IF Head(rest) = ".."
    THEN realpath(IF done = << >> THEN done ELSE SubSeq(done, 1, Len(done) - 1), Tail(rest))
    ELSE LET joined == Append(done, Head(rest))
         IN  IF readlink(joined) # Null
             THEN realpath(<< >>, readlink(joined)[1] \o Tail(rest))
             ELSE realpath(joined, Tail(rest))

\* '..' in a name
has_dotdot(name) == name \in {"..", "a..csv"}

\* '..' in file_path
contains_dotdot(file_path) == \E i \in 1..Len(file_path.names) : has_dotdot(file_path.names[i])

\* real_path.startswith(prefix) for a prefix that ends with the separator
starts_with_dir(real_path, dir) ==
    /\ Len(real_path) > Len(dir)
    /\ SubSeq(real_path, 1, Len(dir)) = dir

blocked_prefixes ==
    << << "etc" >>, << "root" >>, << "var", "log" >>, << "proc" >>, << "sys" >> >>

\* the default of base_dirs: the uploads directory and /tmp
default_base_dirs ==
    << [absolute |-> TRUE, names |-> << "srv", "apps", "uploads" >>],
       [absolute |-> TRUE, names |-> << "tmp" >>] >>

PathValidationError(message) == [raised |-> "PathValidationError", value |-> message]

\* the path as the user wrote it, links unresolved
checked_path_unresolved(abs_path, real_path) == abs_path

\* the path the directory checks look at
checked_path(abs_path, real_path) == real_path

\* base_dirs is Optional
validate_file_path(file_path, base_dirs) ==
    LET dirs == IF base_dirs = Null THEN default_base_dirs ELSE base_dirs[1]
        abs_path == abspath(file_path)
        real_path == realpath(<< >>, abs_path)
        checked == checked_path(abs_path, real_path)
        path_allowed ==
            \E i \in 1..Len(dirs) :
                LET base_real == realpath(<< >>, abspath(dirs[i]))
                IN  starts_with_dir(checked, base_real) \/ checked = base_real
    IN  IF contains_dotdot(file_path)
        THEN PathValidationError("Path traversal detected")
        ELSE IF \E i \in 1..Len(blocked_prefixes) : starts_with_dir(checked, blocked_prefixes[i])
        THEN PathValidationError("Access to system path blocked")
        ELSE IF ~path_allowed
        THEN PathValidationError("File path outside allowed directories")
        ELSE IF real_path \notin RegularFiles
        THEN PathValidationError("File does not exist")
        ELSE [raised |-> "none", value |-> real_path]

FilePaths ==
    [absolute : {TRUE},
     names : {<< "tmp", "a.csv" >>, << "tmp", "a..csv" >>, << "tmp", "sub", "b.csv" >>,
              << "tmp", ".", "a.csv" >>, << "tmp", "sub", "..", "a.csv" >>,
              << "tmp", "..", "etc", "passwd" >>, << "tmp", "missing.csv" >>,
              << "tmp", "sub" >>, << "tmp" >>, << "tmpx", "c.csv" >>,
              << "etc", "passwd" >>, << "home", "u", "secret.csv" >>,
              << "tmp", "link_out.csv" >>, << "tmp", "link_etc" >>,
              << "tmp", "link_in.csv" >>, << "tmp", "link_dir", "secret.csv" >>,
              << "home", "u", "link_tmp.csv" >>, << "home", "u", "tmplink", "a.csv" >>,
              << "root", "uploads", "d.csv" >>, << "srv", "apps", "uploads", "e.csv" >>}]
    \cup [absolute : {FALSE},
          names : {<< "a.csv" >>, << "sub", "b.csv" >>, << "..", "etc", "passwd" >>,
                   << "link_out.csv" >>, << "missing.csv" >>}]

BaseDirLists ==
    {Null,
     Some(<< [absolute |-> TRUE, names |-> << "tmp" >>] >>),
     Some(<< [absolute |-> TRUE, names |-> << "tmp", "sub" >>] >>),
     Some(<< [absolute |-> TRUE, names |-> << "home", "u", "tmplink" >>] >>),
     Some(<< [absolute |-> TRUE, names |-> << "root", "uploads" >>],
             [absolute |-> TRUE, names |-> << "home", "u" >>] >>),
     Some(<< >>)}

Call_validate_file_path ==
    /\ call.op = "none"
    /\ \E args \in [file_path : FilePaths, base_dirs : BaseDirLists] :
        /\ call' = [op |-> "validate_file_path", args |-> args]
        /\ ret' = validate_file_path(args.file_path, args.base_dirs)
    /\ UNCHANGED << usageVars, driverVars, serviceVars >>

\* the file the given path leads to once every link is followed
Resolved == realpath(<< >>, abspath(call.args.file_path))

\* the allowed directories, links followed
AllowedDirectories ==
    LET dirs == IF call.args.base_dirs = Null THEN default_base_dirs ELSE call.args.base_dirs[1]
    IN  {realpath(<< >>, abspath(dirs[i])) : i \in 1..Len(dirs)}

\* path lies in the directory dir, at any depth
Inside(path, dir) == \E n \in 0..Len(path) - 1 : SubSeq(path, 1, n) = dir

Acceptable ==
    /\ \A i \in 1..Len(call.args.file_path.names) :
        call.args.file_path.names[i] \notin {"..", "a..csv"}
    /\ \E dir \in AllowedDirectories : Inside(Resolved, dir)
    /\ \A dir \in {<< "etc" >>, << "root" >>, << "var", "log" >>, << "proc" >>, << "sys" >>} :
        ~Inside(Resolved, dir)
    /\ Resolved \in RegularFiles

\* C20: validate_file_path returns a path, the resolved one, only for a path
\* without '..' whose resolved real path lies inside an allowed base
\* directory, under no blocked system prefix, and names an existing regular
\* file; for every other path it raises, a symbolic link inside an allowed
\* directory that points outside it included
C20_ReturnsOnlyAcceptablePaths ==
    call.op = "validate_file_path" =>
        /\ ret.raised = "none" => Acceptable /\ ret.value = Resolved
        /\ ~Acceptable => ret.raised = "PathValidationError"

\* /tmp/link_out.csv, a link to /home/u/secret.csv, with /tmp allowed
C20_Witness ==
    /\ call.op = "validate_file_path"
    /\ call.args.file_path = [absolute |-> TRUE, names |-> << "tmp", "link_out.csv" >>]
    /\ call.args.base_dirs = Some(<< [absolute |-> TRUE, names |-> << "tmp" >>] >>)
    /\ ret.raised = "PathValidationError"
    /\ ret.value = "File path outside allowed directories"

(***************************************************************************)
(* One call of one of the functions, on its own                             *)
(***************************************************************************)
FunctionInit ==
    /\ UsageIdle
    /\ DriversIdle
    /\ NoCall
    /\ ServicesIdle

FunctionNext ==
    \/ Call_calculate_reorder_quantity
    \/ Call_classify_stock_status
    \/ Call_predict_stockout_date
    \/ Call_select_forecasting_algorithm
    \/ Call_forecast_demand
    \/ Call_validate_usage_result
    \/ Call_calculate_holding_costs
    \/ Call_predict_stockout
    \/ Call_validate_file_path

SpecFunctions == FunctionInit /\ [][FunctionNext]_vars

(***************************************************************************)
(* The CircuitBreaker object on its own, its methods called in any order    *)
(* by the requests of the service (each method holds the lock throughout)   *)
(***************************************************************************)
\* most failures counted, most calls let through while HALF_OPEN that are
\* counted, and the last second of the clock
MaxFailures == 7

MaxGrants == 3

MaxSeconds == 125

BreakerInit ==
    /\ UsageIdle
    /\ DriversIdle
    /\ NoCall
    /\ ServicesIdle

\* db_circuit_breaker.record_success()
RecordSuccess ==
    /\ db_circuit_breaker' = record_success(db_circuit_breaker)
    /\ call' = [op |-> "record_success"]
    /\ ret' = << >>
    /\ failures_in_a_row' = 0
    /\ half_open_grants' = 0
    /\ UNCHANGED << products, session, driver_pc, product_ids, idx, results, log, consecutive_failures, clock >>
    /\ UNCHANGED << usageVars, databaseVars, importVars >>

\* db_circuit_breaker.record_failure()
RecordFailure ==
    /\ db_circuit_breaker.failure_count < MaxFailures
    /\ db_circuit_breaker' = record_failure(db_circuit_breaker, clock)
    /\ call' = [op |-> "record_failure"]
    /\ ret' = << >>
    /\ failures_in_a_row' = failures_in_a_row + 1
    /\ half_open_grants' = 0
    /\ UNCHANGED << products, session, driver_pc, product_ids, idx, results, log, consecutive_failures, clock >>
    /\ UNCHANGED << usageVars, databaseVars, importVars >>

\* db_circuit_breaker.can_execute()
CanExecute ==
    /\ half_open_grants < MaxGrants
    /\ \E check \in {can_execute(db_circuit_breaker, clock)} :
        /\ db_circuit_breaker' = check.breaker
        /\ call' = [op |-> "can_execute"]
        /\ ret' = check.allowed
        /\ half_open_grants' =
              IF check.allowed /\ check.breaker.state = "HALF_OPEN"
              THEN half_open_grants + 1
              ELSE half_open_grants
    /\ UNCHANGED failures_in_a_row
    /\ UNCHANGED << products, session, driver_pc, product_ids, idx, results, log, consecutive_failures, clock >>
    /\ UNCHANGED << usageVars, databaseVars, importVars >>

\* time passes between two calls
Tick ==
    /\ \E seconds \in {29, 30} :
        /\ clock + seconds <= MaxSeconds
        /\ clock' = clock + seconds
    /\ UNCHANGED << products, session, driver_pc, product_ids, idx, results, log, consecutive_failures, db_circuit_breaker >>
    /\ UNCHANGED << usageVars, functionVars, serviceVars >>

BreakerNext ==
    \/ RecordSuccess
    \/ RecordFailure
    \/ CanExecute
    \/ Tick

SpecBreaker == BreakerInit /\ [][BreakerNext]_vars

\* C23: the breaker is OPEN after a record_failure exactly when that call
\* was at least the fifth since the last record_success; with fewer than 5
\* failures in a row it is CLOSED and can_execute returns True
C23_OpensAtFifthFailureInARow ==
    /\ call.op = "record_failure" =>
        (db_circuit_breaker.state = "OPEN" <=> failures_in_a_row >= 5)
    /\ failures_in_a_row < 5 => db_circuit_breaker.state = "CLOSED"
    /\ (call.op = "can_execute" /\ failures_in_a_row < 5) => ret = TRUE

\* the fifth failure in a row has just been recorded
C23_Witness ==
    /\ call.op = "record_failure"
    /\ failures_in_a_row = 5
    /\ db_circuit_breaker.state = "OPEN"
    /\ db_circuit_breaker.failure_count = 5

\* C24: while the breaker is HALF_OPEN one request only is let through:
\* after the can_execute that set HALF_OPEN returned True, no further
\* can_execute returns True before a record_success or record_failure
C24_OneRequestWhileHalfOpen ==
    db_circuit_breaker.state = "HALF_OPEN" => half_open_grants <= 1

\* the breaker can_execute finds OPEN, and the seconds since the last failure
Elapsed == clock - db_circuit_breaker.last_failure_time[1]

\* C25: can_execute on an OPEN breaker returns False while fewer than 60
\* seconds have passed since the last recorded failure; at or after 60
\* seconds it sets HALF_OPEN and returns True; record_success on a HALF_OPEN
\* breaker sets CLOSED with failure_count 0
C25_RecoveryAfterTimeout ==
    [][/\ (CanExecute /\ db_circuit_breaker.state = "OPEN") =>
            IF Elapsed < 60
            THEN ret' = FALSE /\ db_circuit_breaker'.state = "OPEN"
            ELSE ret' = TRUE /\ db_circuit_breaker'.state = "HALF_OPEN"
       /\ (RecordSuccess /\ db_circuit_breaker.state = "HALF_OPEN") =>
            /\ db_circuit_breaker'.state = "CLOSED"
            /\ db_circuit_breaker'.failure_count = 0]_vars

\* can_execute has just set HALF_OPEN, 60 seconds after the last failure
C25_Witness ==
    /\ call.op = "can_execute"
    /\ ret = TRUE
    /\ db_circuit_breaker.state = "HALF_OPEN"
    /\ half_open_grants = 1
    /\ Elapsed = 60

\* C26: whatever the order of the calls, a CLOSED breaker has counted fewer
\* than 5 failures and an OPEN or HALF_OPEN one at least 5, with the time of
\* the last one set; a record_failure on a HALF_OPEN breaker sets OPEN again
\* and starts the recovery timeout anew
C26_StateMatchesFailureCount ==
    /\ [](/\ db_circuit_breaker.state \in {"CLOSED", "OPEN", "HALF_OPEN"}
          /\ db_circuit_breaker.state = "CLOSED" =>
                db_circuit_breaker.failure_count < 5
          /\ db_circuit_breaker.state \in {"OPEN", "HALF_OPEN"} =>
                /\ db_circuit_breaker.failure_count >= 5
                /\ db_circuit_breaker.last_failure_time # Null)
    /\ [][(RecordFailure /\ db_circuit_breaker.state = "HALF_OPEN") =>
            /\ db_circuit_breaker'.state = "OPEN"
            /\ db_circuit_breaker'.last_failure_time = Some(clock)]_vars

\* a failure has just been recorded on a breaker that had been HALF_OPEN
\* since a later time than its last failure
C26_Witness ==
    /\ call.op = "record_failure"
    /\ db_circuit_breaker.state = "OPEN"
    /\ db_circuit_breaker.failure_count = 6
    /\ db_circuit_breaker.last_failure_time = Some(clock)
    /\ clock >= 60
    /\ failures_in_a_row = 6

(***************************************************************************)
(* python-importer/database.py: initialize_database and get_db             *)
(***************************************************************************)
MAX_RETRIES == 5

\* INITIAL_RETRY_DELAY and MAX_RETRY_DELAY, in seconds
INITIAL_RETRY_DELAY == 1

MAX_RETRY_DELAY == 30

\* the calls of initialize_database the process makes at most
MaxInitCalls == 3

\* the urls tried: none, one of another scheme, one of PostgreSQL
DatabaseUrls == {"", "mysql://db", "postgresql://db"}

\* database_url.startswith('postgresql://')
startswith_postgresql(database_url) == database_url = "postgresql://db"

\* the two checks at the top of initialize_database
valid_database_url(database_url) == database_url # "" /\ startswith_postgresql(database_url)

\* what engine.connect() and SELECT 1 can do
ConnectOutcomes == {"ok", "OperationalError", "ProgrammingError"}

\* every exception kept in the loop
retryable_any(error) == error \in {"OperationalError", "ProgrammingError"}

\* the except clause that keeps the loop going
retryable(error) == error = "OperationalError"

\* retry_delay = min(retry_delay * 2, MAX_RETRY_DELAY)
next_retry_delay(retry_delay) == Min2(retry_delay * 2, MAX_RETRY_DELAY)

\* initialize_database(database_url) up to the retry loop
InitializeDatabase ==
    /\ initialization.pc # "connecting"
    /\ initialization.calls < MaxInitCalls
    /\ \E database_url \in DatabaseUrls :
        /\ call' = [op |-> "initialize_database", database_url |-> database_url]
        /\ ret' = << >>
        /\ IF valid_database_url(database_url)
           THEN /\ database' = [database EXCEPT !.engine = "Engine"]
                /\ initialization' = [initialization EXCEPT !.pc = "connecting", !.retry_delay = INITIAL_RETRY_DELAY, !.slept = << >>, !.outcomes = << >>, !.raised = "none", !.calls = @ + 1]
           ELSE /\ database' = database
                /\ initialization' = [initialization EXCEPT !.pc = "raised", !.retry_delay = 0, !.slept = << >>, !.outcomes = << >>, !.raised = "ValueError", !.calls = @ + 1]
    /\ UNCHANGED << usageVars, driverVars, breakerVars, importVars >>

\* one turn of the loop: the attempt, and what follows it
ConnectAttempt ==
    /\ initialization.pc = "connecting"
    /\ \E outcome \in ConnectOutcomes : \E attempt \in {Len(initialization.outcomes) + 1} :
        IF outcome = "ok"
        THEN /\ database' = [database EXCEPT !.SessionLocal = "sessionmaker", !._initialized = TRUE]
             /\ initialization' = [initialization EXCEPT !.pc = "returned", !.outcomes = Append(@, outcome), !.successes = @ + 1]
        ELSE IF retryable(outcome)
        THEN /\ database' = database
             /\ IF attempt < MAX_RETRIES
                THEN initialization' = [initialization EXCEPT !.outcomes = Append(@, outcome), !.slept = Append(@, initialization.retry_delay), !.retry_delay = next_retry_delay(@)]
                ELSE initialization' = [initialization EXCEPT !.pc = "raised", !.outcomes = Append(@, outcome), !.raised = "Exception: all attempts failed"]
        ELSE /\ database' = database
             /\ initialization' = [initialization EXCEPT !.pc = "raised", !.outcomes = Append(@, outcome), !.raised = "Exception: failed to connect"]
    /\ UNCHANGED << call, ret >>
    /\ UNCHANGED << usageVars, driverVars, breakerVars, importVars >>

\* next(get_db())
GetDb ==
    /\ initialization.pc # "connecting"
    /\ call' = [op |-> "get_db", calls |-> initialization.calls]
    /\ ret' = IF ~database._initialized \/ database.SessionLocal = "None" THEN << "RuntimeError" >> ELSE << "Session" >>
    /\ UNCHANGED << usageVars, driverVars, serviceVars >>

DatabaseModuleInit ==
    /\ UsageIdle
    /\ DriversIdle
    /\ NoCall
    /\ ServicesIdle

DatabaseNext ==
    \/ InitializeDatabase
    \/ ConnectAttempt
    \/ GetDb

\* the loop is not suspended for ever: the connection attempt times out
\* (connect_timeout) and time.sleep returns
SpecDatabase == DatabaseModuleInit /\ [][DatabaseNext]_vars /\ WF_vars(ConnectAttempt)

\* the waits of a call that has made its attempts so far
BackoffDelays == << 1, 2, 4, 8 >>

InitializationOver == initialization.pc \in {"returned", "raised"}

Importers == {1, 2}

\* the chunks read from one file at most
MaxChunks == 2

\* the business product ids the files mention
Pids == {"P", "Q"}

\* uuid.uuid4(): a value no other call returns
new_uuid(p, i, pid) == << p, i, pid >>

ProductRow(id, product_id) == [id |-> id, product_id |-> product_id]

\* the product the client has before the imports, when it has one
CatalogueRow == ProductRow(<< 0, 0, "Q" >>, "Q")

\* a dict updated with another
Merge(f, g) == [k \in DOMAIN f \cup DOMAIN g |-> IF k \in DOMAIN g THEN g[k] ELSE f[k]]

\* nothing written in the connection's open transaction
NoPending == [products |-> {}, transactions |-> {}, rows |-> 0]

NoChunk == [product_ids |-> {}, dropped |-> FALSE]

\* a chunk: the product ids of its cleaned rows (one row each), and whether
\* cleaning dropped a row of it
Chunks == {[product_ids |-> ids, dropped |-> d] : ids \in {{}, {"P"}, {"P", "Q"}}, d \in BOOLEAN}

\* no process is started for the batch
NoProcess == [pc |-> "none"]

\* the command lines: the import type, whether import_batch_id is the id of
\* a batch, whether file_path passes validate_file_path, and the number of
\* chunks of the file
CommandLines == [import_type : {"inventory", "orders", "returns"}, found : BOOLEAN, path_valid : BOOLEAN, chunks : 0..MaxChunks]

\* a process before process_import_cli is called
Started(argv) == [pc |-> "idle", import_type |-> argv.import_type, found |-> argv.found, path_valid |-> argv.path_valid, chunks |-> argv.chunks, i |-> 0, chunk |-> NoChunk, total_rows_processed |-> 0, chunk_rows_committed |-> 0, errors_encountered |-> 0, rows_dropped |-> 0, product_cache |-> << >>, product_lookup_chunk |-> << >>, pending |-> NoPending, created |-> {}, fatal |-> "none", exit_code |-> -1]

NewBatch == [status |-> "pending", processedCount |-> 0, errorCount |-> 0]

\* the rows the statements of process p see: the committed ones and its own
Visible(p) == pg.products \cup importer[p].pending.products

\* the row locks of the unique index on (client_id, product_id): an insert
\* of a key waits while another transaction holds an uncommitted row of it
Waits(p, pids) == \E q \in Importers \ {p} : importer[q].pc # "none" /\ \E r \in importer[q].pending.products : r.product_id \in pids

\* connection.commit() and db.commit(): what process p wrote becomes durable
committed(p, written) == [pg EXCEPT !.products = @ \cup written.products, !.transactions = @ \cup written.transactions, !.durable[p] = @ + written.rows]

\* import_batch.status (and, at the end of the file, errorCount) written,
\* flushed and committed
batch_saved(database_state, p, status, errorCount) == [database_state EXCEPT !.import_batches[p].status = status, !.import_batches[p].errorCount = errorCount]

\* the except clauses of the chunk loop: db.rollback() and one more error
chunk_failed(st) == [st EXCEPT !.pc = "loop", !.chunk = NoChunk, !.product_lookup_chunk = << >>, !.pending = NoPending, !.errors_encountered = @ + 1]

\* the outer except clause, and sys.exit(1) after a fatal setup error
exit_failed(st, reason) == [st EXCEPT !.pc = "exited", !.i = 0, !.chunks = 0, !.chunk_rows_committed = 0, !.product_cache = << >>, !.pending = NoPending, !.fatal = reason, !.exit_code = 1]

\* the status chosen without a look at the recorded errors
final_status_ignoring_errors(total_rows_processed, errors_encountered) == IF total_rows_processed = 0 THEN "failed" ELSE "completed"

\* "Finalize import status"
final_status(total_rows_processed, errors_encountered) == IF total_rows_processed = 0 THEN "failed" ELSE IF errors_encountered > 0 THEN "completed_with_errors" ELSE "completed"

\* the entries appended after the status is set, when rows were dropped:
\* one for invalid dates (orders), and the import summary
summary_entries(import_type, rows_dropped) == IF rows_dropped = 0 THEN 0 ELSE IF import_type = "orders" THEN 2 ELSE 1

\* {p.product_id: p.id for p in product_cache_query.all()}
product_cache_of(rows) == [pid \in {r.product_id : r \in rows} |-> (CHOOSE r \in rows : r.product_id = pid).id]

\* from the lookup of the batch to the first chunk, or to an early exit
StartImport(p) ==
    /\ importer[p].pc = "idle"
    /\ \E client_active \in BOOLEAN, readable \in BOOLEAN :
        \E st \in {importer[p]} :
        IF ~st.found
        THEN /\ importer' = [importer EXCEPT ![p] = [st EXCEPT !.pc = "exited", !.exit_code = 1]]
             /\ pg' = pg
        ELSE IF ~client_active
        THEN /\ importer' = [importer EXCEPT ![p] = exit_failed(st, "exception")]
             /\ pg' = batch_saved(pg, p, "failed", pg.import_batches[p].errorCount)
        ELSE IF st.import_type \notin {"inventory", "orders"}
        THEN /\ importer' = [importer EXCEPT ![p] = exit_failed(st, "unsupported import type")]
             /\ pg' = batch_saved(pg, p, "failed", pg.import_batches[p].errorCount)
        ELSE IF ~st.path_valid
        THEN /\ importer' = [importer EXCEPT ![p] = exit_failed(st, "invalid file path")]
             /\ pg' = batch_saved(pg, p, "failed", pg.import_batches[p].errorCount)
        ELSE IF ~readable
        THEN /\ importer' = [importer EXCEPT ![p] = exit_failed(st, "exception")]
             /\ pg' = batch_saved(pg, p, "failed", pg.import_batches[p].errorCount)
        ELSE /\ importer' = [importer EXCEPT ![p] = [st EXCEPT !.pc = "loop", !.product_cache = product_cache_of(pg.products)]]
             /\ pg' = batch_saved(pg, p, "processing", pg.import_batches[p].errorCount)
    /\ UNCHANGED << usageVars, driverVars, functionVars, breakerVars, databaseVars >>

\* the next chunk of the file, cleaned
ReadChunk(p) ==
    /\ importer[p].pc = "loop"
    /\ importer[p].i < importer[p].chunks
    /\ \E chunk \in Chunks, cleaning \in {"cleaned", "ValueError", "KeyError"} :
        \E st \in {[importer[p] EXCEPT !.i = @ + 1, !.chunk_rows_committed = 0]} :
        /\ importer[p].import_type = "inventory" => chunk.product_ids # {} /\ cleaning # "KeyError"
        /\ importer' = [importer EXCEPT ![p] =
              IF cleaning = "ValueError" THEN chunk_failed(st)
              ELSE IF importer[p].import_type = "inventory"
              THEN [st EXCEPT !.pc = "write", !.chunk = chunk, !.rows_dropped = @ + (IF chunk.dropped THEN 1 ELSE 0)]
              ELSE \* orders: a dropped row is recorded twice as a warning
                   IF cleaning = "KeyError"
                   THEN [st EXCEPT !.errors_encountered = @ + (IF chunk.dropped THEN 2 ELSE 0) + 1, !.rows_dropped = @ + (IF chunk.dropped THEN 1 ELSE 0)]
                   ELSE [st EXCEPT !.pc = IF chunk.product_ids = {} THEN "loop" ELSE "write", !.chunk = IF chunk.product_ids = {} THEN NoChunk ELSE chunk, !.errors_encountered = @ + (IF chunk.dropped THEN 2 ELSE 0), !.rows_dropped = @ + (IF chunk.dropped THEN 1 ELSE 0)]]
    /\ UNCHANGED pg
    /\ UNCHANGED << usageVars, driverVars, functionVars, breakerVars, databaseVars >>

\* orders: the unknown product ids of the chunk, and
\* bulk_insert_products_ignore_conflicts for them (INSERT ... ON CONFLICT DO
\* NOTHING, flushed; then the ids queried back)
CreateOrphans(p) ==
    /\ importer[p].pc = "write"
    /\ importer[p].import_type = "orders"
    /\ \E st \in {importer[p]} : \E unknown \in {st.chunk.product_ids \ DOMAIN st.product_cache} :
        /\ ~Waits(p, unknown)
        /\ \E inserted \in {{ProductRow(new_uuid(p, st.i, pid), pid) : pid \in {u \in unknown : \A r \in Visible(p) : r.product_id # u}}} :
           \E product_id_mapping \in {product_cache_of({r \in Visible(p) \cup inserted : r.product_id \in unknown})} :
            importer' = [importer EXCEPT ![p] = [st EXCEPT
                !.pc = "copy",
                !.pending.products = @ \cup inserted,
                !.product_cache = Merge(@, product_id_mapping),
                !.product_lookup_chunk = Merge(Merge([pid \in st.chunk.product_ids \cap DOMAIN st.product_cache |-> st.product_cache[pid]], [pid \in unknown |-> new_uuid(p, st.i, pid)]), product_id_mapping),
                !.created = @ \cup unknown]]
    /\ UNCHANGED pg
    /\ UNCHANGED << usageVars, driverVars, functionVars, breakerVars, databaseVars >>

\* orders: bulk_insert_transactions_copy (COPY, then connection.commit();
\* connection.rollback() when COPY fails), with bulk_insert_mappings as the
\* fallback of the caller
InsertTransactions(p) ==
    /\ importer[p].pc = "copy"
    /\ \E st \in {importer[p]} : \E outcome \in {"copied", "inserted", "failed"} :
        \E valid_rows \in {{[import_batch_id |-> p, chunk |-> st.i, product |-> pid, product_id |-> st.product_lookup_chunk[pid]] : pid \in st.chunk.product_ids}} :
        IF outcome = "copied"
        THEN /\ pg' = committed(p, [st.pending EXCEPT !.transactions = @ \cup valid_rows, !.rows = @ + Cardinality(valid_rows)])
             /\ importer' = [importer EXCEPT ![p] = [st EXCEPT !.pc = "commit", !.pending = NoPending, !.chunk_rows_committed = @ + Cardinality(valid_rows)]]
        ELSE IF outcome = "inserted"
        THEN /\ pg' = pg
             /\ importer' = [importer EXCEPT ![p] = [st EXCEPT !.pc = "commit", !.pending = [NoPending EXCEPT !.transactions = valid_rows, !.rows = Cardinality(valid_rows)], !.chunk_rows_committed = @ + Cardinality(valid_rows)]]
        ELSE /\ pg' = pg
             /\ importer' = [importer EXCEPT ![p] = chunk_failed(st)]
    /\ UNCHANGED << usageVars, driverVars, functionVars, breakerVars, databaseVars >>

\* inventory: the products of the chunk inserted (bulk_insert_products_copy,
\* which commits; bulk_insert_mappings when it raises) and updated
\* (bulk_update_mappings)
UpsertProducts(p) ==
    /\ importer[p].pc = "write"
    /\ importer[p].import_type = "inventory"
    /\ \E st \in {importer[p]} : \E to_update \in {{pid \in st.chunk.product_ids : \E r \in Visible(p) : r.product_id = pid}} :
       \E to_insert \in {st.chunk.product_ids \ to_update} :
        /\ ~Waits(p, to_insert)
        /\ \E insert \in (IF to_insert = {} THEN {"nothing"} ELSE {"copied", "inserted", "failed"}), update \in (IF to_update = {} THEN {"nothing"} ELSE {"updated", "failed"}) :
            \E rows \in {{ProductRow(new_uuid(p, st.i, pid), pid) : pid \in to_insert}} :
            /\ pg' = IF insert = "copied" THEN committed(p, [NoPending EXCEPT !.products = rows, !.rows = Cardinality(rows)]) ELSE pg
            /\ importer' = [importer EXCEPT ![p] =
                  IF insert = "failed" \/ update = "failed" THEN chunk_failed(st)
                  ELSE [st EXCEPT
                      !.pc = "commit",
                      !.pending = IF insert = "inserted" THEN [NoPending EXCEPT !.products = rows, !.rows = Cardinality(rows) + Cardinality(to_update)] ELSE [NoPending EXCEPT !.rows = Cardinality(to_update)],
                      !.chunk_rows_committed = @ + Cardinality(to_insert) + Cardinality(to_update)]]
    /\ UNCHANGED << usageVars, driverVars, functionVars, breakerVars, databaseVars >>

\* db.commit() for the chunk, then processedCount written and committed
CommitChunk(p) ==
    /\ importer[p].pc = "commit"
    /\ \E st \in {importer[p]} : \E total \in {st.total_rows_processed + st.chunk_rows_committed} :
        /\ pg' = [committed(p, st.pending) EXCEPT !.import_batches[p].processedCount = total]
        /\ importer' = [importer EXCEPT ![p] = [st EXCEPT !.pc = "loop", !.chunk = NoChunk, !.product_lookup_chunk = << >>, !.pending = NoPending, !.total_rows_processed = total]]
    /\ UNCHANGED << usageVars, driverVars, functionVars, breakerVars, databaseVars >>

\* the file has no more chunks: the status is set, the summary of dropped
\* rows is appended, and the process exits with 0
Finalize(p) ==
    /\ importer[p].pc = "loop"
    /\ importer[p].i = importer[p].chunks
    /\ \E st \in {importer[p]} : \E recorded \in {st.errors_encountered + summary_entries(st.import_type, st.rows_dropped)} :
        /\ pg' = batch_saved(pg, p, final_status(st.total_rows_processed, st.errors_encountered), recorded)
        /\ importer' = [importer EXCEPT ![p] = [st EXCEPT !.pc = "exited", !.i = 0, !.chunks = 0, !.chunk_rows_committed = 0, !.product_cache = << >>, !.errors_encountered = recorded, !.exit_code = 0]]
    /\ UNCHANGED << usageVars, driverVars, functionVars, breakerVars, databaseVars >>

\* reading the next chunk raises: the outer except clause
FatalError(p) ==
    /\ importer[p].pc = "loop"
    /\ importer[p].i < importer[p].chunks
    /\ pg' = batch_saved(pg, p, "failed", pg.import_batches[p].errorCount)
    /\ importer' = [importer EXCEPT ![p] = exit_failed(importer[p], "exception")]
    /\ UNCHANGED << usageVars, driverVars, functionVars, breakerVars, databaseVars >>

\* the database before the imports: the client has no product or one
Databases0 == {[products |-> catalogue, transactions |-> {}, import_batches |-> [p \in Importers |-> NewBatch], durable |-> [p \in Importers |-> 0]] : catalogue \in {{}, {CatalogueRow}}}

\* one process is started, with any command line
ImportInit ==
    /\ UsageIdle
    /\ DriversIdle
    /\ NoCall
    /\ NoBreakerCalls
    /\ NotInitialized
    /\ pg \in Databases0
    /\ \E argv \in CommandLines : importer = [p \in Importers |-> IF p = 1 THEN Started(argv) ELSE NoProcess]

\* two processes are started for two batches of the client, each with a
\* file of one chunk: the second of them imports orders
ConcurrentInit ==
    /\ UsageIdle
    /\ DriversIdle
    /\ NoCall
    /\ NoBreakerCalls
    /\ NotInitialized
    /\ pg \in Databases0
    /\ \E import_type \in {"inventory", "orders"} : importer = [p \in Importers |-> Started([import_type |-> IF p = 1 THEN import_type ELSE "orders", found |-> TRUE, path_valid |-> TRUE, chunks |-> 1])]

ImporterStep(p) ==
    \/ StartImport(p)
    \/ ReadChunk(p)
    \/ CreateOrphans(p)
    \/ InsertTransactions(p)
    \/ UpsertProducts(p)
    \/ CommitChunk(p)
    \/ Finalize(p)
    \/ FatalError(p)

ImportNext ==
    \/ \E p \in Importers : StartImport(p)
    \/ \E p \in Importers : ReadChunk(p)
    \/ \E p \in Importers : CreateOrphans(p)
    \/ \E p \in Importers : InsertTransactions(p)
    \/ \E p \in Importers : UpsertProducts(p)
    \/ \E p \in Importers : CommitChunk(p)
    \/ \E p \in Importers : Finalize(p)
    \/ \E p \in Importers : FatalError(p)

\* a process that was started is scheduled until it exits
SpecImport == ImportInit /\ [][ImportNext]_vars /\ \A p \in Importers : WF_vars(ImporterStep(p))

SpecConcurrentImports == ConcurrentInit /\ [][ImportNext]_vars /\ \A p \in Importers : WF_vars(ImporterStep(p))

\* C27: between two chunks, processedCount of the batch is the number of
\* rows of the file whose insert or update is durably committed
C27_ProcessedCountIsCommittedRows ==
    \A p \in Importers : importer[p].pc = "loop" => pg.import_batches[p].processedCount = pg.durable[p]

\* C28: when both imports met a product id as unknown, the products table
\* has at most one row for it, and every committed transaction row for it
\* holds the id of a committed product row with that product id
C28_OneOrphanRowForBothImports ==
    \A pid \in Pids : (\A p \in Importers : pid \in importer[p].created) =>
        /\ Cardinality({r \in pg.products : r.product_id = pid}) <= 1
        /\ \A t \in pg.transactions : t.product = pid => \E r \in pg.products : r.product_id = pid /\ r.id = t.product_id

TerminalStatuses == {"failed", "completed_with_errors", "completed"}

\* the errors recorded while the chunks were processed, without the entries
\* that Finalize appends for dropped rows after it has set the status
ChunkErrors(p) == importer[p].errors_encountered - (IF importer[p].fatal = "none" THEN summary_entries(importer[p].import_type, importer[p].rows_dropped) ELSE 0)

\* C30: a run that found its batch exits, and then the batch is failed when
\* no row was processed or the run ended by a fatal error, else
\* completed_with_errors when errors were recorded, else completed; never
\* processing
C30_EveryRunEndsInTerminalStatus ==
    /\ [](\A p \in Importers : (importer[p].pc = "exited" /\ importer[p].found) =>
            /\ pg.import_batches[p].status \in TerminalStatuses
            /\ pg.import_batches[p].status = "failed" <=> (importer[p].total_rows_processed = 0 \/ importer[p].fatal # "none")
            /\ pg.import_batches[p].status = "completed_with_errors" <=> (importer[p].fatal = "none" /\ importer[p].total_rows_processed > 0 /\ ChunkErrors(p) > 0)
            /\ pg.import_batches[p].status = "completed" <=> (importer[p].fatal = "none" /\ importer[p].total_rows_processed > 0 /\ ChunkErrors(p) = 0))
    /\ \A p \in Importers : (importer[p].pc # "none") ~> (importer[p].pc = "exited")

\* a run with one failed chunk and one committed chunk has exited
C30_Witness ==
    /\ importer[1].pc = "exited"
    /\ importer[1].found
    /\ importer[1].fatal = "none"
    /\ importer[1].exit_code = 0
    /\ importer[1].total_rows_processed = 2
    /\ importer[1].errors_encountered = 1
    /\ pg.import_batches[1] = [status |-> "completed_with_errors", processedCount |-> 2, errorCount |-> 1]

====
